---------------------------- MODULE Spec2Model ----------------------------
(***************************************************************************)
(* A model of the Rhino MCP relay stack:                                   *)
(*   - the newline frame codec (buffer-and-split loop) used by the daemon  *)
(*     and by the relay                     (SpecCodec)                    *)
(*   - the threaded daemon, src/src/daemon_mcp_server.py   (SpecDaemon)    *)
(*   - the stdio relay, src/src/socket_proxy.py            (SpecRelay)     *)
(*   - the two standalone stdio servers, src/standalone-mcp-server.py and  *)
(*     src/src/standalone-mcp-server.py                (SpecStandalone)    *)
(*   - the daemon and the standalone servers seen as one family of      *)
(*     lifecycle state machines                          (SpecServers)     *)
(*   - the clients of the Rhino endpoint, send_to_rhino and               *)
(*     RhinoConnection.send_command                      (SpecBackend)     *)
(*   - the relay's startup, ensure_daemon_running and                     *)
(*     connect_to_daemon                                 (SpecStartup)     *)
(*   - relays that start at the same time, the daemons they spawn and the  *)
(*     PID lock file                                     (SpecLock)        *)
(* Each specification runs one subsystem and holds the variables of the    *)
(* others at their initial value.                                          *)
(***************************************************************************)
EXTENDS Integers, Sequences, FiniteSets, TLC

VARIABLES
  \* ---- frame codec
  cStream,      \* the whole byte stream the peer writes
  cPos,         \* number of bytes of cStream delivered by recv so far
  cBuf,         \* the reader's buffer
  cFrames,      \* the frames yielded so far, in order
  cSplit,       \* observation: a yielded frame arrived in more than one chunk
  \* ---- daemon (src/src/daemon_mcp_server.py)
  dExit,        \* EXIT_FLAG
  dState,       \* SERVER_STATE
  dPidFile,     \* the PID lock file exists
  dMainPc,      \* main(): "serving" | "exited"
  dSigPc,       \* signal_handler: "idle" | "delay" (inside time.sleep(1))
  dSigFirst,    \* observation: SERVER_STATE at the first signal delivered, or "none"
  dPeer,        \* per connection, the client's end: "none" | "up" | "half" | "gone" | "reset"
  dWire,        \* per connection, bytes in flight from the client to the daemon
  dCount,       \* per connection, number of lines the client has sent
  dHpc,         \* per connection, handle(): "none" | "recv" | "proc" | "done"
  dBuf,         \* per connection, handle()'s local buffer
  dConnected,   \* per connection, self.client_connected
  dSent,        \* per connection, the responses handed to sendall, with the outcome
  \* ---- relay (src/src/socket_proxy.py)
  rExit,        \* EXIT_FLAG
  rInit,        \* INITIALIZED
  rSigPc,       \* signal_handler: "idle" | "set" (past the INITIALIZED test)
  rSigIgnored,  \* observation: a signal was ignored because INITIALIZED was set
  rStdin,       \* the lines written to standard input and not yet read
  rStdinEof,    \* the client has closed standard input
  rCount,       \* number of lines the client has written
  rStdout,      \* the lines printed on standard output
  rDaemonUp,    \* a daemon listens on SERVER_PORT
  rNext,        \* number of sockets created by connect_to_daemon so far
  kState,       \* per socket, the relay's socket object: "unused" | "open" | "closed"
  kSrv,         \* per socket, the daemon's end: "open" | "closed"
  kToSrv,       \* per socket, the lines the daemon has received and not yet served
  kToCli,       \* per socket, bytes in flight from the daemon to the relay
  sPc,          \* forward_stdin_to_socket: "none" | "top" | "read" | "send" |
                \*   "reconnect" | "dead"
  sSock,        \* forward_stdin_to_socket's local sock
  sLine,        \* forward_stdin_to_socket's local line (Bad when it holds no
                \*   line still to be sent)
  sEofPreInit,  \* observation: readline returned end-of-file while INITIALIZED was false
  oPc,          \* per forward_socket_to_stdout thread: "none" | "recv" | "proc" |
                \*   "finally" | "dead"
  oSock,        \* per forward_socket_to_stdout thread, its local sock
  oBuf,         \* per forward_socket_to_stdout thread, its local buffer
  mPc,          \* main(): "start" | "loop" | "finally" | "post" | "stay" |
                \*   "returned" | "failed"
  mSockT,       \* main()'s socket_thread: the thread it started last
  \* ---- the standalone servers (src/standalone-mcp-server.py and
  \* ---- src/src/standalone-mcp-server.py); one of the two programs runs
  prog,         \* which program runs: "standalone" | "src_standalone" | "none"
  tExit,        \* standalone: EXIT_FLAG
  tIgnore,      \* standalone: IGNORE_SIGNALS
  tState,       \* standalone: SERVER_STATE
  tStdin,       \* standalone: lines written to standard input and not yet read
  tCount,       \* standalone: number of lines the client has written
  tQueue,       \* standalone: MESSAGE_QUEUE
  tEvent,       \* standalone: NEW_MESSAGE_EVENT
  tInPc,        \* standalone, persist_stdin: "read" | "set" | "dead"
  tPc,          \* standalone, main_loop: "top" | "get" | "wait" | "clear" |
                \*   "process" | "init1" | "init2" | "tool1" | "send" | "done"
  tMsg,         \* standalone, main_loop: the message being processed
  tResp,        \* standalone, main_loop: the response to send
  tOut,         \* standalone: the responses written to standard output
  tRhinoUp,     \* standalone: Rhino listens on RHINO_PORT
  tSig,         \* standalone, observation: number of signals delivered, and
                \*   SERVER_STATE and IGNORE_SIGNALS at the last delivery
  uExit,        \* src standalone: EXIT_FLAG
  uState,       \* src standalone: SERVER_STATE
  uStdin,       \* src standalone: lines written to standard input, not yet read
  uCount,       \* src standalone: number of lines the client has written
  uEof,         \* src standalone: the client has closed standard input
  uPc,          \* src standalone, main: "top" | "read" | "done" | "killed"
  uOut,         \* src standalone: the responses written to standard output
  uSig,         \* src standalone, observation: number of signals delivered, and
                \*   the signal and SERVER_STATE at the last delivery
  \* ---- the clients of the Rhino endpoint: send_to_rhino of
  \* ---- src/standalone-mcp-server.py and RhinoConnection.send_command of
  \* ---- src/combined_mcp_server.py
  bClient,      \* which client runs: "send_to_rhino" | "send_command" | "none"
  bPc,          \* "idle" | "wait": a command was sent and recv is pending
  bSock,        \* the socket the client holds (local sock or self.sock), 0 for none
  bConn,        \* per connection: "unused" | "open" | "closed"
  bUsed,        \* per connection, the number of commands sent on it
  bNext,        \* number of connections opened so far
  bResults,     \* the outcome of each completed call, in order
  \* ---- the relay's startup: main() up to the start of the forwarding
  \* ---- threads, with ensure_daemon_running and connect_to_daemon
  gPc,          \* main(): "off" | "ensure" | "spawn" | "poll" | "ensured" |
                \*   "connect" | "connected" | "running" | "returned"
  gLock,        \* the daemon's PID lock file: "absent", or what it names:
                \*   "live" | "dead" | "foreign" | "garbage"
  gSeen,        \* observation: gLock as ensure_daemon_running found it, or "none"
  gSpawned,     \* number of daemons started by subprocess.Popen
  gPolls,       \* number of times the wait loop found no lock
  gEnsure,      \* what ensure_daemon_running returned: "none" | "true" | "false"
  gAttempt,     \* connect_to_daemon: number of failed attempts, the loop's i
  gSlept,       \* connect_to_daemon: the delays slept, in order
  gSock,        \* what connect_to_daemon returned: "none" | "sock" | "None"
  gThreads,     \* number of forwarding threads started
  gStatus,      \* the process's exit status, -1 while it runs
  gDaemon,      \* the spawned daemon: "none" | "spawned" | "locked" | "serving" | "died"
  gListen,      \* a daemon listens on SERVER_PORT
  \* ---- relays starting at the same time and the daemons they spawn
  lPc,          \* per relay, ensure_daemon_running: "off" | "check" | "remove" | "spawn" | "poll" | "true" | "false"
  lPolls,       \* per relay, turns of the polling loop that found no lock
  lLock,        \* the PID lock file: 0 when there is none, else the daemon whose id it holds
  lDaemon,      \* per daemon: "none" | "spawned" | "locked" | "serving" | "exited"
  lPort         \* the daemon that listens on SOCKET_PORT, 0 when none does

codecVars  == <<cStream, cPos, cBuf, cFrames, cSplit>>
daemonVars == <<dExit, dState, dPidFile, dMainPc, dSigPc, dSigFirst, dPeer, dWire,
                dCount, dHpc, dBuf, dConnected, dSent>>
relayVars  == <<rExit, rInit, rSigPc, rSigIgnored, rStdin, rStdinEof, rCount, rStdout,
                rDaemonUp, rNext, kState, kSrv, kToSrv, kToCli, sPc, sSock, sLine,
                sEofPreInit, oPc, oSock, oBuf, mPc, mSockT>>
tVars == <<tExit, tIgnore, tState, tStdin, tCount, tQueue, tEvent, tInPc, tPc, tMsg,
           tResp, tOut, tRhinoUp, tSig>>
uVars == <<uExit, uState, uStdin, uCount, uEof, uPc, uOut, uSig>>
standVars == <<prog, tVars, uVars>>
backendVars == <<bClient, bPc, bSock, bConn, bUsed, bNext, bResults>>
startupVars == <<gPc, gLock, gSeen, gSpawned, gPolls, gEnsure, gAttempt, gSlept, gSock,
                 gThreads, gStatus, gDaemon, gListen>>
lockVars == <<lPc, lPolls, lLock, lDaemon, lPort>>
vars == <<codecVars, daemonVars, relayVars, standVars, backendVars, startupVars, lockVars>>
nonCodecVars   == <<daemonVars, relayVars, standVars, backendVars, startupVars, lockVars>>
nonDaemonVars  == <<codecVars, relayVars, standVars, backendVars, startupVars, lockVars>>
nonRelayVars   == <<codecVars, daemonVars, standVars, backendVars, startupVars, lockVars>>
nonStandVars   == <<codecVars, daemonVars, relayVars, backendVars, startupVars, lockVars>>
nonBackendVars == <<codecVars, daemonVars, relayVars, standVars, startupVars, lockVars>>
nonStartupVars == <<codecVars, daemonVars, relayVars, standVars, backendVars, lockVars>>
nonLockVars    == <<codecVars, daemonVars, relayVars, standVars, backendVars, startupVars>>

(***************************************************************************)
(* Bounds of the model.                                                    *)
(***************************************************************************)
MaxFrames   == 2    \* frames in a codec stream
MaxFrameLen == 2    \* bytes in one frame of a codec stream
MaxChunk    == 3    \* bytes one recv returns at most
MaxDConn    == 2    \* daemon connections
MaxDSend    == 2    \* lines the daemon's clients send in all
MaxRConn    == 3    \* sockets the relay creates in all
MaxRLines   == 2    \* lines written to the relay's standard input
MaxOThreads == 3    \* forward_socket_to_stdout threads started in all
MaxSLines   == 2    \* lines written to a standalone server's standard input
MaxSignals  == 2    \* signals delivered to a standalone server
MaxBCalls   == 3    \* calls of a client of the Rhino endpoint
MaxLRelays  == 2    \* relays that start at the same time
MaxBConn    == 3    \* connections opened to the Rhino endpoint

(***************************************************************************)
(* Frames.  A byte stream is a sequence of tokens; the terminator is one   *)
(* token.  The codec specification uses the integers 1, 2 as payload bytes *)
(* and 0 as the line break; on the daemon's and the relay's wires a token  *)
(* is the text of one JSON line or the line break NL.                      *)
(***************************************************************************)
NLByte == 0
NL == [t |-> "nl"]

HasNL(buf, nl) == \E i \in 1..Len(buf) : buf[i] = nl

FirstNL(buf, nl) ==
  CHOOSE i \in 1..Len(buf) : buf[i] = nl /\ \A j \in 1..(i-1) : buf[j] # nl

\* A variant of the split that also drops the byte after the terminator.
SplitLineOffByOne(buf, nl) ==
  LET i == FirstNL(buf, nl)
  IN  [line |-> SubSeq(buf, 1, i-1), rest |-> SubSeq(buf, i+2, Len(buf))]

\* line, buffer = buffer.split(b'\n', 1)
SplitLine(buf, nl) ==
  LET i == FirstNL(buf, nl)
  IN  [line |-> SubSeq(buf, 1, i-1), rest |-> SubSeq(buf, i+1, Len(buf))]

\* while b'\n' in buffer: line, buffer = split; if line: yield line
RECURSIVE SplitAll(_, _, _)
SplitAll(buf, nl, acc) ==
  IF HasNL(buf, nl)
    THEN LET s == SplitLine(buf, nl)
         IN  SplitAll(s.rest, nl, IF s.line # <<>> THEN Append(acc, s.line) ELSE acc)
    ELSE [frames |-> acc, rest |-> buf]

\* encode(value): the value's text followed by exactly one terminator
Encode(frame, nl) == Append(frame, nl)

RECURSIVE EncodeAll(_, _)
EncodeAll(frames, nl) ==
  IF frames = <<>> THEN <<>>
  ELSE Encode(Head(frames), nl) \o EncodeAll(Tail(frames), nl)

(***************************************************************************)
(* The frame codec on its own: a stream of newline-terminated values,      *)
(* possibly followed by an unterminated tail, delivered in chunks.         *)
(***************************************************************************)
PayloadBytes == {1, 2}

RECURSIVE SeqsUpTo(_, _)
SeqsUpTo(S, n) ==
  IF n = 0 THEN {<<>>}
  ELSE LET prev == SeqsUpTo(S, n-1)
       IN  prev \cup {Append(s, x) : s \in {p \in prev : Len(p) = n-1}, x \in S}

CodecFrames  == SeqsUpTo(PayloadBytes, MaxFrameLen) \ {<<>>}
CodecStreams ==
  {EncodeAll(fs, NLByte) \o tail :
     fs \in SeqsUpTo(CodecFrames, MaxFrames), tail \in SeqsUpTo(PayloadBytes, 1)}

InitCodec ==
  /\ cStream \in CodecStreams
  /\ cPos = 0
  /\ cBuf = <<>>
  /\ cFrames = <<>>
  /\ cSplit = FALSE

IdleCodec ==
  /\ cStream = <<>>
  /\ cPos = 0
  /\ cBuf = <<>>
  /\ cFrames = <<>>
  /\ cSplit = FALSE

\* data = recv(4096); buffer += data; the split loop
CodecRecv(k) ==
  /\ cPos + k <= Len(cStream)
  /\ LET data == SubSeq(cStream, cPos + 1, cPos + k)
         r    == SplitAll(cBuf \o data, NLByte, <<>>)
     IN  /\ cBuf' = r.rest
         /\ cFrames' = cFrames \o r.frames
         /\ cSplit' = (cSplit \/ (cBuf # <<>> /\ r.frames # <<>>))
  /\ cPos' = cPos + k
  /\ UNCHANGED cStream
  /\ UNCHANGED nonCodecVars

NextCodec == \E k \in 1..MaxChunk : CodecRecv(k)


(***************************************************************************)
(* JSON lines.  A line's text is one of: an object (a request), a JSON     *)
(* value that is not an object, or text that is not JSON.  A request may   *)
(* lack its id and its method; tools/call may lack its params.             *)
(***************************************************************************)
NoId   == -1
Absent == "<absent>"

Obj(id, method, params) ==
  [t |-> "obj", id |-> id, method |-> method, params |-> params]
NonObj == [t |-> "nonobj"]
Bad    == [t |-> "bad"]
\* A line whose bytes are not UTF-8 text
Undecodable == [t |-> "undecodable"]
\* line.decode('utf-8') returns, rather than raising UnicodeDecodeError
Decodes(line) == \A i \in 1..Len(line) : line[i] # Undecodable

\* message.get("id", 0)
IdOf(msg) == IF msg.id = NoId THEN 0 ELSE msg.id
\* message.get("method", "")
MethodOf(msg) == IF msg.method = Absent THEN "" ELSE msg.method

Result(id, body)      == [t |-> "resp", id |-> id, code |-> 0, body |-> body]
ErrorResp(id, code)   == [t |-> "resp", id |-> id, code |-> code, body |-> "error"]

MethodNotFound == -32601
InternalError  == -32603

\* The lines a client may write as its n-th line.
ClientLines(n) ==
  { Obj(n, "initialize", FALSE), Obj(n, "tools/call", TRUE),
    Obj(n, "tools/call", FALSE), Obj(n, "shutdown", FALSE),
    Obj(NoId, "notifications/cancelled", FALSE), Obj(n, "foo", FALSE),
    Obj(NoId, Absent, FALSE), NonObj, Bad, Undecodable }

(***************************************************************************)
(* The daemon, src/src/daemon_mcp_server.py.                               *)
(***************************************************************************)
DConns == 1..MaxDConn

\* A variant of handle_shutdown that also requests process termination.
DHandleShutdownExit(msg, state) ==
  [send |-> <<Result(IdOf(msg), "success")>>, state |-> state,
   disconnect |-> TRUE, exit |-> TRUE]

\* SERVER_CAPABILITIES, with each tool entry reduced to its name.
SERVER_CAPABILITIES ==
  [serverInfo |-> [name |-> "RhinoMcpServer", version |-> "0.1.0"],
   capabilities |->
     [tools |-> << "geometry_tools.create_sphere", "geometry_tools.create_box",
                   "geometry_tools.create_cylinder", "scene_tools.get_scene_info",
                   "scene_tools.clear_scene", "scene_tools.create_layer" >>]]

\* The tool entries a response carries.  The result written "capabilities"
\* in this model is SERVER_CAPABILITIES; no other result has tool entries.
ManifestTools(resp) ==
  IF resp.code = 0 /\ resp.body = "capabilities"
    THEN SERVER_CAPABILITIES.capabilities.tools
    ELSE <<>>

\* A variant of handle_initialize that answers with id 0 whatever the
\* request's id.
DHandleInitializeNoEcho(msg, state) ==
  [send |-> <<Result(0, "capabilities")>>, state |-> "initialized",
   disconnect |-> FALSE, exit |-> FALSE]

\* A variant of handle_initialize that falls back to "waiting" when the
\* state is already "initialized".
DHandleInitializeRegress(msg, state) ==
  [send |-> <<Result(IdOf(msg), "capabilities")>>,
   state |-> IF state = "initialized" THEN "waiting" ELSE "initialized",
   disconnect |-> FALSE, exit |-> FALSE]

\* MCPRequestHandler.handle_initialize
DHandleInitialize(msg, state) ==
  [send |-> <<Result(IdOf(msg), "capabilities")>>, state |-> "initialized",
   disconnect |-> FALSE, exit |-> FALSE]

\* MCPRequestHandler.handle_tool_call; a request without params raises KeyError,
\* which process_message turns into an internal-error response.
DHandleToolCall(msg, state) ==
  IF msg.params
    THEN [send |-> <<Result(IdOf(msg), "tool")>>, state |-> state,
          disconnect |-> FALSE, exit |-> FALSE]
    ELSE [send |-> <<ErrorResp(IdOf(msg), InternalError)>>, state |-> state,
          disconnect |-> FALSE, exit |-> FALSE]

\* MCPRequestHandler.handle_shutdown: acknowledges and ends this connection only
DHandleShutdown(msg, state) ==
  [send |-> <<Result(IdOf(msg), "success")>>, state |-> state,
   disconnect |-> TRUE, exit |-> FALSE]

\* A variant of the dispatch that answers notifications/cancelled like an
\* unknown method.
DProcessMessageNoCancel(line, state) ==
  IF Len(line) # 1 \/ line[1].t = "bad"
    THEN [send |-> <<>>, state |-> state, disconnect |-> FALSE, exit |-> FALSE]
  ELSE IF line[1].t # "obj"
    THEN [send |-> <<ErrorResp(0, InternalError)>>, state |-> state,
          disconnect |-> FALSE, exit |-> FALSE]
  ELSE LET msg == line[1]
           method == MethodOf(msg)
       IN  CASE method = "initialize" -> DHandleInitialize(msg, state)
             [] method = "tools/call" -> DHandleToolCall(msg, state)
             [] method = "shutdown"   -> DHandleShutdown(msg, state)
             [] OTHER ->
                  [send |-> <<ErrorResp(IdOf(msg), MethodNotFound)>>,
                   state |-> state, disconnect |-> FALSE, exit |-> FALSE]

\* MCPRequestHandler.process_message(message_str).  Text that is not JSON
\* raises in json.loads and the except branch, finding message unbound, sends
\* nothing; a JSON value that is not an object raises in message.get and is
\* answered with an internal error carrying id 0.
DProcessMessage(line, state) ==
  IF Len(line) # 1 \/ line[1].t = "bad"
    THEN [send |-> <<>>, state |-> state, disconnect |-> FALSE, exit |-> FALSE]
  ELSE IF line[1].t # "obj"
    THEN [send |-> <<ErrorResp(0, InternalError)>>, state |-> state,
          disconnect |-> FALSE, exit |-> FALSE]
  ELSE LET msg == line[1]
           method == MethodOf(msg)
       IN  CASE method = "initialize" -> DHandleInitialize(msg, state)
             [] method = "tools/call" -> DHandleToolCall(msg, state)
             [] method = "shutdown"   -> DHandleShutdown(msg, state)
             [] method = "notifications/cancelled" ->
                  [send |-> <<>>, state |-> state, disconnect |-> FALSE,
                   exit |-> FALSE]
             [] OTHER ->
                  [send |-> <<ErrorResp(IdOf(msg), MethodNotFound)>>,
                   state |-> state, disconnect |-> FALSE, exit |-> FALSE]

InitDaemon ==
  /\ dExit = FALSE
  /\ dState = "waiting"
  /\ dPidFile = TRUE
  /\ dMainPc = "serving"
  /\ dSigPc = "idle"
  /\ dSigFirst = "none"
  /\ dPeer = [c \in DConns |-> "none"]
  /\ dWire = [c \in DConns |-> <<>>]
  /\ dCount = [c \in DConns |-> 0]
  /\ dHpc = [c \in DConns |-> "none"]
  /\ dBuf = [c \in DConns |-> <<>>]
  /\ dConnected = [c \in DConns |-> FALSE]
  /\ dSent = [c \in DConns |-> <<>>]

RECURSIVE SumTo(_, _)
SumTo(f, n) == IF n = 0 THEN 0 ELSE f[n] + SumTo(f, n-1)

\* handle(): the loop condition "while not EXIT_FLAG and self.client_connected",
\* evaluated when an iteration ends: the handler returns or blocks in recv.
DLoopHead(exit, connected) == IF exit \/ ~connected THEN "done" ELSE "recv"

\* A client connects; ThreadedTCPServer starts handle() on its own thread.
DClientConnect(c) ==
  /\ dMainPc = "serving"
  /\ dPeer[c] = "none"
  /\ dPeer' = [dPeer EXCEPT ![c] = "up"]
  /\ dConnected' = [dConnected EXCEPT ![c] = TRUE]
  /\ dHpc' = [dHpc EXCEPT ![c] = DLoopHead(dExit, TRUE)]
  /\ UNCHANGED <<dExit, dState, dPidFile, dMainPc, dSigPc, dSigFirst, dWire, dCount, dBuf,
                 dSent>>
  /\ UNCHANGED nonDaemonVars

\* The client writes one line and its terminator.
DClientSend(c, line) ==
  /\ dMainPc = "serving"
  /\ dPeer[c] = "up"
  /\ SumTo(dCount, MaxDConn) < MaxDSend
  /\ dWire' = [dWire EXCEPT ![c] = @ \o Encode(<<line>>, NL)]
  /\ dCount' = [dCount EXCEPT ![c] = @ + 1]
  /\ UNCHANGED <<dExit, dState, dPidFile, dMainPc, dSigPc, dSigFirst, dPeer, dHpc, dBuf,
                 dConnected, dSent>>
  /\ UNCHANGED nonDaemonVars

\* The ways a connection ends: the client closes its write side ("half") or
\* the whole connection ("gone"), or the connection breaks ("reset"): what
\* was in flight is lost and every later read of the daemon raises.
CloseKinds == {"half", "gone", "reset"}

DClientClose(c, how) ==
  /\ dMainPc = "serving"
  /\ dPeer[c] \in {"up", "half"}
  /\ dPeer[c] = "half" => how # "half"
  /\ dPeer' = [dPeer EXCEPT ![c] = how]
  /\ dWire' = [dWire EXCEPT ![c] = IF how = "reset" THEN <<>> ELSE @]
  /\ UNCHANGED <<dExit, dState, dPidFile, dMainPc, dSigPc, dSigFirst, dCount, dHpc,
                 dBuf, dConnected, dSent>>
  /\ UNCHANGED nonDaemonVars

\* A variant of the read in which a client's disconnection stops the daemon.
DRecvExitOnClose(c, k) ==
  /\ dMainPc = "serving"
  /\ dHpc[c] = "recv"
  /\ IF dWire[c] = <<>>
       THEN /\ dPeer[c] \in {"half", "gone"}
            /\ k = 1
            /\ dConnected' = [dConnected EXCEPT ![c] = FALSE]
            /\ dHpc' = [dHpc EXCEPT ![c] = "done"]
            /\ dExit' = TRUE
            /\ UNCHANGED <<dWire, dBuf>>
       ELSE /\ k <= Len(dWire[c])
            /\ dBuf' = [dBuf EXCEPT ![c] = @ \o SubSeq(dWire[c], 1, k)]
            /\ dWire' = [dWire EXCEPT ![c] = SubSeq(@, k+1, Len(@))]
            /\ dHpc' = [dHpc EXCEPT ![c] =
                          IF HasNL(dBuf'[c], NL) THEN "proc"
                          ELSE DLoopHead(dExit, dConnected[c])]
            /\ UNCHANGED <<dConnected, dExit>>
  /\ UNCHANGED <<dState, dPidFile, dMainPc, dSigPc, dSigFirst, dPeer, dCount, dSent>>
  /\ UNCHANGED nonDaemonVars

\* A variant of the read in which all handlers append to one buffer, that of
\* the first connection.
DRecvSharedBuffer(c, k) ==
  /\ dMainPc = "serving"
  /\ dHpc[c] = "recv"
  /\ IF dWire[c] = <<>>
       THEN /\ dPeer[c] \in {"half", "gone"}
            /\ k = 1
            /\ dConnected' = [dConnected EXCEPT ![c] = FALSE]
            /\ dHpc' = [dHpc EXCEPT ![c] = "done"]
            /\ UNCHANGED <<dWire, dBuf>>
       ELSE /\ k <= Len(dWire[c])
            /\ dBuf' = [dBuf EXCEPT ![1] = @ \o SubSeq(dWire[c], 1, k)]
            /\ dWire' = [dWire EXCEPT ![c] = SubSeq(@, k+1, Len(@))]
            /\ dHpc' = [dHpc EXCEPT ![c] =
                          IF HasNL(dBuf'[c], NL) THEN "proc"
                          ELSE DLoopHead(dExit, dConnected[c])]
            /\ UNCHANGED dConnected
  /\ UNCHANGED <<dExit, dState, dPidFile, dMainPc, dSigPc, dSigFirst, dPeer, dCount, dSent>>
  /\ UNCHANGED nonDaemonVars

\* handle(): data = self.request.recv(4096); an empty read ends the handler,
\* anything else is added to the buffer.  When the read raises, the handler
\* logs the error, sleeps and goes back to the loop head ("Don't break here").
DRecv(c, k) ==
  /\ dMainPc = "serving"
  /\ dHpc[c] = "recv"
  /\ IF dPeer[c] = "reset"
       THEN /\ k = 1
            /\ dHpc' = [dHpc EXCEPT ![c] = DLoopHead(dExit, dConnected[c])]
            /\ UNCHANGED <<dConnected, dWire, dBuf>>
     ELSE IF dWire[c] = <<>>
       THEN /\ dPeer[c] \in {"half", "gone"}
            /\ k = 1
            /\ dConnected' = [dConnected EXCEPT ![c] = FALSE]
            /\ dHpc' = [dHpc EXCEPT ![c] = "done"]
            /\ UNCHANGED <<dWire, dBuf>>
       ELSE /\ k <= Len(dWire[c])
            /\ dBuf' = [dBuf EXCEPT ![c] = @ \o SubSeq(dWire[c], 1, k)]
            /\ dWire' = [dWire EXCEPT ![c] = SubSeq(@, k+1, Len(@))]
            /\ dHpc' = [dHpc EXCEPT ![c] =
                          IF HasNL(dBuf'[c], NL) THEN "proc"
                          ELSE DLoopHead(dExit, dConnected[c])]
            /\ UNCHANGED dConnected
  /\ UNCHANGED <<dExit, dState, dPidFile, dMainPc, dSigPc, dSigFirst, dPeer, dCount, dSent>>
  /\ UNCHANGED nonDaemonVars

\* send_response: sendall either writes the response or raises, and the
\* exception is logged and swallowed.
DSendOutcomes(c) == IF dPeer[c] \in {"gone", "reset"} THEN {TRUE, FALSE} ELSE {TRUE}

\* A variant that puts a new response in front of the earlier ones.
DSendResponseFront(sent, resps, ok) ==
  [i \in 1..Len(resps) |-> [resp |-> resps[i], ok |-> ok]] \o sent

\* send_response(data) for each response of one dispatch, appended to what
\* the connection has been handed so far.
DSendResponse(sent, resps, ok) ==
  sent \o [i \in 1..Len(resps) |-> [resp |-> resps[i], ok |-> ok]]

\* A variant of the dispatch turn in which a failed send ends the connection.
DProcessCloseOnSendFailure(c, ok) ==
  /\ dMainPc = "serving"
  /\ dHpc[c] = "proc"
  /\ ok \in DSendOutcomes(c)
  /\ LET s == SplitLine(dBuf[c], NL)
         raised == s.line # <<>> /\ ~Decodes(s.line)
         r == IF s.line # <<>> /\ ~raised THEN DProcessMessage(s.line, dState)
              ELSE [send |-> <<>>, state |-> dState, disconnect |-> FALSE,
                    exit |-> FALSE]
     IN  /\ dBuf' = [dBuf EXCEPT ![c] = s.rest]
         /\ dState' = r.state
         /\ dExit' = (dExit \/ r.exit)
         /\ dConnected' = [dConnected EXCEPT ![c] =
                             @ /\ ~r.disconnect /\ (ok \/ r.send = <<>>)]
         /\ dSent' = [dSent EXCEPT ![c] = DSendResponse(@, r.send, ok)]
         /\ dHpc' = [dHpc EXCEPT ![c] =
                       IF HasNL(s.rest, NL) /\ ~raised THEN "proc"
                       ELSE DLoopHead(dExit', dConnected'[c])]
  /\ UNCHANGED <<dPidFile, dMainPc, dSigPc, dSigFirst, dPeer, dWire, dCount>>
  /\ UNCHANGED nonDaemonVars

\* handle(): one turn of "while b'\n' in buffer": split off the first line and,
\* if it is not empty, decode it and give it to process_message.  When the
\* decoding raises, the exception leaves the inner loop: it is logged and the
\* handler goes back to the loop head and to recv, with the rest of the
\* buffer kept.
DProcess(c, ok) ==
  /\ dMainPc = "serving"
  /\ dHpc[c] = "proc"
  /\ ok \in DSendOutcomes(c)
  /\ LET s == SplitLine(dBuf[c], NL)
         raised == s.line # <<>> /\ ~Decodes(s.line)
         r == IF s.line # <<>> /\ ~raised THEN DProcessMessage(s.line, dState)
              ELSE [send |-> <<>>, state |-> dState, disconnect |-> FALSE,
                    exit |-> FALSE]
     IN  /\ dBuf' = [dBuf EXCEPT ![c] = s.rest]
         /\ dState' = r.state
         /\ dExit' = (dExit \/ r.exit)
         /\ dConnected' = [dConnected EXCEPT ![c] = @ /\ ~r.disconnect]
         /\ dSent' = [dSent EXCEPT ![c] = DSendResponse(@, r.send, ok)]
         /\ dHpc' = [dHpc EXCEPT ![c] =
                       IF HasNL(s.rest, NL) /\ ~raised THEN "proc"
                       ELSE DLoopHead(dExit', dConnected'[c])]
  /\ UNCHANGED <<dPidFile, dMainPc, dSigPc, dSigFirst, dPeer, dWire, dCount>>
  /\ UNCHANGED nonDaemonVars

\* A variant of the handler that ignores a signal once the state has left waiting.
DSignalIgnoring ==
  /\ dMainPc = "serving"
  /\ dSigPc = "idle"
  /\ dExit' = (dExit \/ dState = "waiting")
  /\ dSigFirst' = IF dSigFirst = "none" THEN dState ELSE dSigFirst
  /\ UNCHANGED <<dSigPc, dState, dPidFile, dMainPc, dPeer, dWire, dCount, dHpc,
                 dBuf, dConnected, dSent>>
  /\ UNCHANGED nonDaemonVars

\* signal_handler, entry: outside the waiting state it first sleeps a second,
\* in the waiting state it sets EXIT_FLAG at once.
DSignal ==
  /\ dMainPc = "serving"
  /\ dSigPc = "idle"
  /\ IF dState # "waiting"
       THEN dSigPc' = "delay" /\ UNCHANGED dExit
       ELSE dExit' = TRUE /\ UNCHANGED dSigPc
  /\ dSigFirst' = IF dSigFirst = "none" THEN dState ELSE dSigFirst
  /\ UNCHANGED <<dState, dPidFile, dMainPc, dPeer, dWire, dCount, dHpc, dBuf,
                 dConnected, dSent>>
  /\ UNCHANGED nonDaemonVars

\* signal_handler, after the sleep: EXIT_FLAG = True
DSignalSet ==
  /\ dMainPc = "serving"
  /\ dSigPc = "delay"
  /\ dSigPc' = "idle"
  /\ dExit' = TRUE
  /\ UNCHANGED <<dState, dPidFile, dMainPc, dSigFirst, dPeer, dWire, dCount, dHpc,
                 dBuf, dConnected, dSent>>
  /\ UNCHANGED nonDaemonVars

\* A variant of main() whose finally clause does not call cleanup().
DMainExitNoCleanup ==
  /\ dMainPc = "serving"
  /\ dSigPc = "idle"
  /\ dExit
  /\ dMainPc' = "exited"
  /\ UNCHANGED <<dExit, dState, dPidFile, dSigPc, dSigFirst, dPeer, dWire, dCount, dHpc,
                 dBuf, dConnected, dSent>>
  /\ UNCHANGED nonDaemonVars

\* main(): the loop "while not EXIT_FLAG" ends; finally: server.shutdown()
\* and cleanup(), which removes the PID file.  The handler threads are daemon
\* threads and end with the process.
DMainExit ==
  /\ dMainPc = "serving"
  /\ dSigPc = "idle"
  /\ dExit
  /\ dMainPc' = "exited"
  /\ dPidFile' = FALSE
  /\ UNCHANGED <<dExit, dState, dSigPc, dSigFirst, dPeer, dWire, dCount, dHpc, dBuf,
                 dConnected, dSent>>
  /\ UNCHANGED nonDaemonVars

\* The steps of the handler thread of connection c.
DHandlerSteps(c) ==
  \/ \E k \in 1..MaxChunk : DRecv(c, k)
  \/ \E ok \in BOOLEAN : DProcess(c, ok)

NextDaemon ==
  \/ \E c \in DConns : DClientConnect(c)
  \/ \E c \in DConns : \E line \in ClientLines(dCount[c] + 1) : DClientSend(c, line)
  \/ \E c \in DConns, how \in CloseKinds : DClientClose(c, how)
  \/ \E c \in DConns, k \in 1..MaxChunk : DRecv(c, k)
  \/ \E c \in DConns, ok \in BOOLEAN : DProcess(c, ok)
  \/ DSignal
  \/ DSignalSet
  \/ DMainExit

(***************************************************************************)
(* The stdio relay, src/src/socket_proxy.py.  The daemon is its             *)
(* environment: it serves the lines it receives on a socket with            *)
(* DProcessMessage and may close a socket or stop listening at any time.    *)
(***************************************************************************)
RConns   == 1..MaxRConn
OThreads == 1..MaxOThreads

\* The lines a client may write as the n-th line of the relay's standard input.
RelayLines(n) ==
  { Obj(n, "initialize", FALSE), Obj(n, "tools/call", TRUE),
    Obj(n, "shutdown", FALSE), Bad }

InitRelay ==
  /\ rExit = FALSE
  /\ rInit = FALSE
  /\ rSigPc = "idle"
  /\ rSigIgnored = FALSE
  /\ rStdin = <<>>
  /\ rStdinEof = FALSE
  /\ rCount = 0
  /\ rStdout = <<>>
  /\ rDaemonUp \in BOOLEAN
  /\ rNext = 0
  /\ kState = [c \in RConns |-> "unused"]
  /\ kSrv = [c \in RConns |-> "open"]
  /\ kToSrv = [c \in RConns |-> <<>>]
  /\ kToCli = [c \in RConns |-> <<>>]
  /\ sPc = "none"
  /\ sSock = 0
  /\ sLine = Bad
  /\ sEofPreInit = FALSE
  /\ oPc = [t \in OThreads |-> "none"]
  /\ oSock = [t \in OThreads |-> 0]
  /\ oBuf = [t \in OThreads |-> <<>>]
  /\ mPc = "start"
  /\ mSockT = 0

IdleRelay ==
  /\ rExit = FALSE
  /\ rInit = FALSE
  /\ rSigPc = "idle"
  /\ rSigIgnored = FALSE
  /\ rStdin = <<>>
  /\ rStdinEof = FALSE
  /\ rCount = 0
  /\ rStdout = <<>>
  /\ rDaemonUp = FALSE
  /\ rNext = 0
  /\ kState = [c \in RConns |-> "unused"]
  /\ kSrv = [c \in RConns |-> "open"]
  /\ kToSrv = [c \in RConns |-> <<>>]
  /\ kToCli = [c \in RConns |-> <<>>]
  /\ sPc = "none"
  /\ sSock = 0
  /\ sLine = Bad
  /\ sEofPreInit = FALSE
  /\ oPc = [t \in OThreads |-> "none"]
  /\ oSock = [t \in OThreads |-> 0]
  /\ oBuf = [t \in OThreads |-> <<>>]
  /\ mPc = "start"
  /\ mSockT = 0

\* The relay process runs: main() has not returned.
RAlive == mPc \notin {"returned", "failed"}

\* connect_to_daemon(): a new socket when a daemon listens, None otherwise.
\* The model creates at most MaxRConn sockets.
ConnectOk    == rDaemonUp
ConnectReady == rDaemonUp => rNext < MaxRConn
NewSock      == rNext + 1

\* The first thread slot not used yet; the model starts at most MaxOThreads
\* forward_socket_to_stdout threads.
FreeThreads == {t \in OThreads : oPc[t] = "none"}
NewThread   == CHOOSE t \in FreeThreads : \A u \in FreeThreads : t <= u

\* is_alive() of the two kinds of thread
SAlive    == sPc \notin {"none", "dead"}
OAlive(t) == oPc[t] \notin {"none", "dead"}

\* ---- the client of the relay
RClientWrite(line) ==
  /\ RAlive
  /\ ~rStdinEof
  /\ rCount < MaxRLines
  /\ rStdin' = Append(rStdin, line)
  /\ rCount' = rCount + 1
  /\ UNCHANGED <<rExit, rInit, rSigPc, rSigIgnored, rStdinEof, rStdout, rDaemonUp,
                 rNext, kState, kSrv, kToSrv, kToCli, sPc, sSock, sLine, sEofPreInit,
                 oPc, oSock, oBuf, mPc, mSockT>>
  /\ UNCHANGED nonRelayVars

RClientEof ==
  /\ RAlive
  /\ ~rStdinEof
  /\ rStdinEof' = TRUE
  /\ UNCHANGED <<rExit, rInit, rSigPc, rSigIgnored, rStdin, rCount, rStdout, rDaemonUp,
                 rNext, kState, kSrv, kToSrv, kToCli, sPc, sSock, sLine, sEofPreInit,
                 oPc, oSock, oBuf, mPc, mSockT>>
  /\ UNCHANGED nonRelayVars

\* ---- the daemon, as the relay sees it
\* The daemon's handler of socket c dispatches the next line it received and
\* writes the response; after a shutdown request it closes the socket.
EServe(c) ==
  /\ RAlive
  /\ kSrv[c] = "open"
  /\ kToSrv[c] # <<>>
  /\ LET r == DProcessMessage(<<Head(kToSrv[c])>>, "waiting")
     IN  /\ kToCli' = [kToCli EXCEPT ![c] =
                         @ \o EncodeAll([i \in 1..Len(r.send) |-> <<r.send[i]>>], NL)]
         /\ kSrv' = [kSrv EXCEPT ![c] = IF r.disconnect THEN "closed" ELSE @]
  /\ kToSrv' = [kToSrv EXCEPT ![c] = Tail(@)]
  /\ UNCHANGED <<rExit, rInit, rSigPc, rSigIgnored, rStdin, rStdinEof, rCount, rStdout,
                 rDaemonUp, rNext, kState, sPc, sSock, sLine, sEofPreInit, oPc, oSock,
                 oBuf, mPc, mSockT>>
  /\ UNCHANGED nonRelayVars

\* The daemon closes socket c.
EClose(c) ==
  /\ RAlive
  /\ kState[c] # "unused"
  /\ kSrv[c] = "open"
  /\ kSrv' = [kSrv EXCEPT ![c] = "closed"]
  /\ kToSrv' = [kToSrv EXCEPT ![c] = <<>>]
  /\ UNCHANGED <<rExit, rInit, rSigPc, rSigIgnored, rStdin, rStdinEof, rCount, rStdout,
                 rDaemonUp, rNext, kState, kToCli, sPc, sSock, sLine, sEofPreInit, oPc,
                 oSock, oBuf, mPc, mSockT>>
  /\ UNCHANGED nonRelayVars

\* The daemon process ends (all its sockets close) or a daemon starts.
EDaemonToggle ==
  /\ RAlive
  /\ mPc # "start"
  /\ rDaemonUp' = ~rDaemonUp
  /\ kSrv' = IF rDaemonUp THEN [c \in RConns |-> IF kState[c] # "unused" THEN "closed" ELSE kSrv[c]]
             ELSE kSrv
  /\ kToSrv' = IF rDaemonUp THEN [c \in RConns |-> <<>>] ELSE kToSrv
  /\ UNCHANGED <<rExit, rInit, rSigPc, rSigIgnored, rStdin, rStdinEof, rCount, rStdout,
                 rNext, kState, kToCli, sPc, sSock, sLine, sEofPreInit, oPc, oSock,
                 oBuf, mPc, mSockT>>
  /\ UNCHANGED nonRelayVars

\* ---- forward_stdin_to_socket
\* while not EXIT_FLAG
SIsInitialize(line) == line.t = "obj" /\ MethodOf(line) = "initialize"

STop ==
  /\ RAlive
  /\ sPc = "top"
  /\ sPc' = IF rExit THEN "dead" ELSE "read"
  /\ UNCHANGED <<rExit, rInit, rSigPc, rSigIgnored, rStdin, rStdinEof, rCount, rStdout,
                 rDaemonUp, rNext, kState, kSrv, kToSrv, kToCli, sSock, sLine,
                 sEofPreInit, oPc, oSock, oBuf, mPc, mSockT>>
  /\ UNCHANGED nonRelayVars

\* A variant of the read that forwards a line only if it parses as JSON.
SReadValidating ==
  /\ RAlive
  /\ sPc = "read"
  /\ IF rStdin # <<>>
       THEN /\ sLine' = IF Head(rStdin) = Bad THEN sLine ELSE Head(rStdin)
            /\ rStdin' = Tail(rStdin)
            /\ rInit' = (rInit \/ SIsInitialize(Head(rStdin)))
            /\ sPc' = IF Head(rStdin) = Bad THEN "top" ELSE "send"
            /\ UNCHANGED sEofPreInit
       ELSE /\ rStdinEof
            /\ sPc' = IF rInit THEN "top" ELSE "dead"
            /\ sEofPreInit' = (sEofPreInit \/ ~rInit)
            /\ UNCHANGED <<sLine, rStdin, rInit>>
  /\ UNCHANGED <<rExit, rSigPc, rSigIgnored, rStdinEof, rCount, rStdout, rDaemonUp,
                 rNext, kState, kSrv, kToSrv, kToCli, sSock, oPc, oSock, oBuf, mPc,
                 mSockT>>
  /\ UNCHANGED nonRelayVars

\* line = sys.stdin.readline(): a line, whose method is inspected, or the end
\* of the file, which ends the thread unless INITIALIZED is set.
SRead ==
  /\ RAlive
  /\ sPc = "read"
  /\ IF rStdin # <<>>
       THEN /\ sLine' = Head(rStdin)
            /\ rStdin' = Tail(rStdin)
            /\ rInit' = (rInit \/ SIsInitialize(Head(rStdin)))
            /\ sPc' = "send"
            /\ UNCHANGED sEofPreInit
       ELSE /\ rStdinEof
            /\ sPc' = IF rInit THEN "top" ELSE "dead"
            /\ sEofPreInit' = (sEofPreInit \/ ~rInit)
            /\ UNCHANGED <<sLine, rStdin, rInit>>
  /\ UNCHANGED <<rExit, rSigPc, rSigIgnored, rStdinEof, rCount, rStdout, rDaemonUp,
                 rNext, kState, kSrv, kToSrv, kToCli, sSock, oPc, oSock, oBuf, mPc,
                 mSockT>>
  /\ UNCHANGED nonRelayVars

\* sock.sendall(line): fails on a socket object that was closed, may fail or
\* be lost on a socket the daemon closed, and is delivered otherwise.  On a
\* failure the thread closes its socket and reconnects if INITIALIZED is set
\* and ends otherwise.
SSend(ok) ==
  /\ RAlive
  /\ sPc = "send"
  /\ kState[sSock] = "closed" => ~ok
  /\ (kState[sSock] = "open" /\ kSrv[sSock] = "open") => ok
  /\ IF ok
       THEN /\ kToSrv' = [kToSrv EXCEPT ![sSock] =
                            IF kSrv[sSock] = "open" THEN Append(@, sLine) ELSE @]
            /\ sPc' = "top"
            /\ sLine' = Bad
            /\ UNCHANGED kState
       ELSE /\ sPc' = IF rInit THEN "reconnect" ELSE "dead"
            /\ sLine' = IF rInit THEN sLine ELSE Bad
            /\ kState' = IF rInit THEN [kState EXCEPT ![sSock] = "closed"] ELSE kState
            /\ UNCHANGED kToSrv
  /\ UNCHANGED <<rExit, rInit, rSigPc, rSigIgnored, rStdin, rStdinEof, rCount, rStdout,
                 rDaemonUp, rNext, kSrv, kToCli, sSock, sEofPreInit, oPc, oSock,
                 oBuf, mPc, mSockT>>
  /\ UNCHANGED nonRelayVars

\* A variant of the reconnection that goes back to the first sendall with the
\* same line, so that a line may be written any number of times.
SReconnectResendLoop(ok) ==
  /\ RAlive
  /\ sPc = "reconnect"
  /\ ConnectReady
  /\ ok
  /\ IF ConnectOk
       THEN /\ rNext' = NewSock
            /\ sSock' = NewSock
            /\ kState' = [kState EXCEPT ![NewSock] = "open"]
            /\ sPc' = "send"
            /\ UNCHANGED <<kToSrv, sLine>>
       ELSE /\ sPc' = "top"
            /\ sLine' = Bad
            /\ UNCHANGED <<rNext, sSock, kState, kToSrv>>
  /\ UNCHANGED <<rExit, rInit, rSigPc, rSigIgnored, rStdin, rStdinEof, rCount, rStdout,
                 rDaemonUp, kSrv, kToCli, sEofPreInit, oPc, oSock, oBuf, mPc,
                 mSockT>>
  /\ UNCHANGED nonRelayVars

\* new_sock = connect_to_daemon(); on success sock = new_sock and the line is
\* sent again: it is delivered (ok) or that sendall raises as well, which the
\* outer handler answers by going on with the loop; when no socket is
\* obtained the line is given up.
SReconnect(ok) ==
  /\ RAlive
  /\ sPc = "reconnect"
  /\ ConnectReady
  /\ IF ConnectOk
       THEN /\ rNext' = NewSock
            /\ sSock' = NewSock
            /\ kState' = [kState EXCEPT ![NewSock] = "open"]
            /\ kToSrv' = [kToSrv EXCEPT ![NewSock] = IF ok THEN Append(@, sLine) ELSE @]
       ELSE /\ ok
            /\ UNCHANGED <<rNext, sSock, kState, kToSrv>>
  /\ sPc' = "top"
  /\ sLine' = Bad
  /\ UNCHANGED <<rExit, rInit, rSigPc, rSigIgnored, rStdin, rStdinEof, rCount, rStdout,
                 rDaemonUp, kSrv, kToCli, sEofPreInit, oPc, oSock, oBuf, mPc,
                 mSockT>>
  /\ UNCHANGED nonRelayVars

\* A variant of the reconnection in which the thread, keeping its buffer, goes
\* on reading from the socket the input thread is using when that one is open.
ORecvOnInputSocket(t, k) ==
  /\ RAlive
  /\ oPc[t] = "recv"
  /\ LET c == oSock[t]
     IN  IF rExit
           THEN /\ k = 1
                /\ oPc' = [oPc EXCEPT ![t] = "finally"]
                /\ UNCHANGED <<oSock, oBuf, kState, kToCli, rNext>>
         ELSE IF kState[c] = "open" /\ kToCli[c] # <<>>
           THEN /\ k <= Len(kToCli[c])
                /\ oBuf' = [oBuf EXCEPT ![t] = @ \o SubSeq(kToCli[c], 1, k)]
                /\ kToCli' = [kToCli EXCEPT ![c] = SubSeq(@, k+1, Len(@))]
                /\ oPc' = [oPc EXCEPT ![t] = IF HasNL(oBuf'[t], NL) THEN "proc" ELSE "recv"]
                /\ UNCHANGED <<oSock, kState, rNext>>
         ELSE IF kState[c] = "closed" \/ kSrv[c] = "closed"
           THEN /\ k = 1
                /\ IF rInit
                     THEN /\ ConnectReady
                          /\ IF sSock # c /\ sSock \in RConns /\ kState[sSock] = "open"
                               THEN /\ oSock' = [oSock EXCEPT ![t] = sSock]
                                    /\ kState' = [kState EXCEPT ![c] = "closed"]
                                    /\ UNCHANGED rNext
                             ELSE IF ConnectOk
                               THEN /\ rNext' = NewSock
                                    /\ oSock' = [oSock EXCEPT ![t] = NewSock]
                                    /\ kState' = [kState EXCEPT ![c] = "closed",
                                                                ![NewSock] = "open"]
                               ELSE /\ kState' = [kState EXCEPT ![c] = "closed"]
                                    /\ UNCHANGED <<rNext, oSock>>
                          /\ UNCHANGED oPc
                     ELSE /\ oPc' = [oPc EXCEPT ![t] = "finally"]
                          /\ UNCHANGED <<rNext, oSock, kState>>
                /\ UNCHANGED <<oBuf, kToCli>>
         ELSE /\ k = 1
              /\ UNCHANGED <<oPc, oSock, oBuf, kState, kToCli, rNext>>
  /\ UNCHANGED <<rExit, rInit, rSigPc, rSigIgnored, rStdin, rStdinEof, rCount, rStdout,
                 rDaemonUp, kSrv, kToSrv, sPc, sSock, sLine, sEofPreInit, mPc, mSockT>>
  /\ UNCHANGED nonRelayVars

\* ---- forward_socket_to_stdout
\* One turn of "while not EXIT_FLAG": data = sock.recv(4096).  The read raises
\* on a socket object that was closed, returns data when there is some,
\* returns nothing when the daemon closed the socket, and times out otherwise.
\* After an empty read or an error the thread closes its socket and
\* reconnects if INITIALIZED is set, and leaves the loop otherwise.
ORecv(t, k) ==
  /\ RAlive
  /\ oPc[t] = "recv"
  /\ LET c == oSock[t]
     IN  IF rExit
           THEN /\ k = 1
                /\ oPc' = [oPc EXCEPT ![t] = "finally"]
                /\ UNCHANGED <<oSock, oBuf, kState, kToCli, rNext>>
         ELSE IF kState[c] = "open" /\ kToCli[c] # <<>>
           THEN /\ k <= Len(kToCli[c])
                /\ oBuf' = [oBuf EXCEPT ![t] = @ \o SubSeq(kToCli[c], 1, k)]
                /\ kToCli' = [kToCli EXCEPT ![c] = SubSeq(@, k+1, Len(@))]
                /\ oPc' = [oPc EXCEPT ![t] = IF HasNL(oBuf'[t], NL) THEN "proc" ELSE "recv"]
                /\ UNCHANGED <<oSock, kState, rNext>>
         ELSE IF kState[c] = "closed" \/ kSrv[c] = "closed"
           THEN /\ k = 1
                /\ IF rInit
                     THEN /\ ConnectReady
                          /\ IF ConnectOk
                               THEN /\ rNext' = NewSock
                                    /\ oSock' = [oSock EXCEPT ![t] = NewSock]
                                    /\ kState' = [kState EXCEPT ![c] = "closed",
                                                                ![NewSock] = "open"]
                               ELSE /\ kState' = [kState EXCEPT ![c] = "closed"]
                                    /\ UNCHANGED <<rNext, oSock>>
                          /\ UNCHANGED oPc
                     ELSE /\ oPc' = [oPc EXCEPT ![t] = "finally"]
                          /\ UNCHANGED <<rNext, oSock, kState>>
                /\ UNCHANGED <<oBuf, kToCli>>
         ELSE /\ k = 1
              /\ UNCHANGED <<oPc, oSock, oBuf, kState, kToCli, rNext>>
  /\ UNCHANGED <<rExit, rInit, rSigPc, rSigIgnored, rStdin, rStdinEof, rCount, rStdout,
                 rDaemonUp, kSrv, kToSrv, sPc, sSock, sLine, sEofPreInit, mPc, mSockT>>
  /\ UNCHANGED nonRelayVars

\* The initialization marker: a JSON object with "jsonrpc", "result" and
\* "serverInfo" in the result.
OIsInitResponse(line) ==
  Len(line) = 1 /\ line[1].t = "resp" /\ line[1].code = 0 /\ line[1].body = "capabilities"

\* One turn of "while b'\n' in buffer": a non-empty line sets INITIALIZED if it
\* is an initialization response and is printed on standard output.
OProcess(t) ==
  /\ RAlive
  /\ oPc[t] = "proc"
  /\ LET s == SplitLine(oBuf[t], NL)
     IN  /\ oBuf' = [oBuf EXCEPT ![t] = s.rest]
         /\ rInit' = (rInit \/ (s.line # <<>> /\ OIsInitResponse(s.line)))
         /\ rStdout' = IF s.line # <<>> THEN Append(rStdout, s.line) ELSE rStdout
         /\ oPc' = [oPc EXCEPT ![t] = IF HasNL(s.rest, NL) THEN "proc" ELSE "recv"]
  /\ UNCHANGED <<rExit, rSigPc, rSigIgnored, rStdin, rStdinEof, rCount, rDaemonUp, rNext,
                 kState, kSrv, kToSrv, kToCli, sPc, sSock, sLine, sEofPreInit, oSock,
                 mPc, mSockT>>
  /\ UNCHANGED nonRelayVars

\* finally: if INITIALIZED and not EXIT_FLAG, connect and start another
\* forward_socket_to_stdout thread on the new socket.
OFinally(t) ==
  /\ RAlive
  /\ oPc[t] = "finally"
  /\ IF rInit /\ ~rExit
       THEN /\ ConnectReady
            /\ ConnectOk => FreeThreads # {}
            /\ IF ConnectOk
                 THEN /\ rNext' = NewSock
                      /\ kState' = [kState EXCEPT ![NewSock] = "open"]
                      /\ oPc' = [oPc EXCEPT ![t] = "dead", ![NewThread] = "recv"]
                      /\ oSock' = [oSock EXCEPT ![NewThread] = NewSock]
                 ELSE /\ oPc' = [oPc EXCEPT ![t] = "dead"]
                      /\ UNCHANGED <<rNext, kState, oSock>>
       ELSE /\ oPc' = [oPc EXCEPT ![t] = "dead"]
            /\ UNCHANGED <<rNext, kState, oSock>>
  /\ UNCHANGED <<rExit, rInit, rSigPc, rSigIgnored, rStdin, rStdinEof, rCount, rStdout,
                 rDaemonUp, kSrv, kToSrv, kToCli, sPc, sSock, sLine, sEofPreInit, oBuf,
                 mPc, mSockT>>
  /\ UNCHANGED nonRelayVars

\* ---- signal_handler, which runs on the main thread
\* A variant of the handler that does not test INITIALIZED.
RSignalUnguarded ==
  /\ RAlive
  /\ rSigPc = "idle"
  /\ rSigPc' = "set"
  /\ UNCHANGED <<rExit, rInit, rSigIgnored, rStdin, rStdinEof, rCount, rStdout,
                 rDaemonUp, rNext, kState, kSrv, kToSrv, kToCli, sPc, sSock, sLine,
                 sEofPreInit, oPc, oSock, oBuf, mPc, mSockT>>
  /\ UNCHANGED nonRelayVars

\* if INITIALIZED: return
RSignal ==
  /\ RAlive
  /\ rSigPc = "idle"
  /\ IF rInit
       THEN rSigIgnored' = TRUE /\ UNCHANGED rSigPc
       ELSE rSigPc' = "set" /\ UNCHANGED rSigIgnored
  /\ UNCHANGED <<rExit, rInit, rStdin, rStdinEof, rCount, rStdout, rDaemonUp, rNext,
                 kState, kSrv, kToSrv, kToCli, sPc, sSock, sLine, sEofPreInit, oPc,
                 oSock, oBuf, mPc, mSockT>>
  /\ UNCHANGED nonRelayVars

\* EXIT_FLAG = True
RSignalSet ==
  /\ RAlive
  /\ rSigPc = "set"
  /\ rSigPc' = "idle"
  /\ rExit' = TRUE
  /\ UNCHANGED <<rInit, rSigIgnored, rStdin, rStdinEof, rCount, rStdout, rDaemonUp,
                 rNext, kState, kSrv, kToSrv, kToCli, sPc, sSock, sLine, sEofPreInit,
                 oPc, oSock, oBuf, mPc, mSockT>>
  /\ UNCHANGED nonRelayVars

\* ---- main()
\* ensure_daemon_running() and connect_to_daemon(), then both threads start on
\* the one socket; return 1 when no daemon can be reached.
MStart ==
  /\ mPc = "start"
  /\ rSigPc = "idle"
  /\ IF ConnectOk
       THEN /\ rNext' = NewSock
            /\ kState' = [kState EXCEPT ![NewSock] = "open"]
            /\ sPc' = "top"
            /\ sSock' = NewSock
            /\ oPc' = [oPc EXCEPT ![NewThread] = "recv"]
            /\ oSock' = [oSock EXCEPT ![NewThread] = NewSock]
            /\ mSockT' = NewThread
            /\ mPc' = "loop"
       ELSE /\ mPc' = "failed"
            /\ UNCHANGED <<rNext, kState, sPc, sSock, oPc, oSock, mSockT>>
  /\ UNCHANGED <<rExit, rInit, rSigPc, rSigIgnored, rStdin, rStdinEof, rCount, rStdout,
                 rDaemonUp, kSrv, kToSrv, kToCli, sLine, sEofPreInit, oBuf>>
  /\ UNCHANGED nonRelayVars

\* A variant of the supervisor loop that takes one exited thread for both.
MLoopEitherExited ==
  /\ mPc = "loop"
  /\ rSigPc = "idle"
  /\ IF rExit
       THEN /\ mPc' = "finally"
            /\ UNCHANGED <<rNext, kState, sPc, sSock, oPc, oSock, mSockT>>
     ELSE IF ~SAlive \/ ~OAlive(mSockT)
       THEN IF rInit
              THEN /\ ConnectReady
                   /\ ConnectOk => FreeThreads # {}
                   /\ IF ConnectOk
                        THEN /\ rNext' = NewSock
                             /\ kState' = [kState EXCEPT ![NewSock] = "open"]
                             /\ sPc' = "top"
                             /\ sSock' = NewSock
                             /\ oPc' = [oPc EXCEPT ![NewThread] = "recv"]
                             /\ oSock' = [oSock EXCEPT ![NewThread] = NewSock]
                             /\ mSockT' = NewThread
                        ELSE UNCHANGED <<rNext, kState, sPc, sSock, oPc, oSock, mSockT>>
                   /\ UNCHANGED mPc
              ELSE /\ mPc' = "finally"
                   /\ UNCHANGED <<rNext, kState, sPc, sSock, oPc, oSock, mSockT>>
     ELSE UNCHANGED <<mPc, rNext, kState, sPc, sSock, oPc, oSock, mSockT>>
  /\ UNCHANGED <<rExit, rInit, rSigPc, rSigIgnored, rStdin, rStdinEof, rCount, rStdout,
                 rDaemonUp, kSrv, kToSrv, kToCli, sLine, sEofPreInit, oBuf>>
  /\ UNCHANGED nonRelayVars

\* One turn of the supervisor loop "while not EXIT_FLAG": when both threads
\* have exited it restarts them on a new socket if INITIALIZED is set and
\* leaves the loop otherwise.
MLoop ==
  /\ mPc = "loop"
  /\ rSigPc = "idle"
  /\ IF rExit
       THEN /\ mPc' = "finally"
            /\ UNCHANGED <<rNext, kState, sPc, sSock, oPc, oSock, mSockT>>
     ELSE IF ~SAlive /\ ~OAlive(mSockT)
       THEN IF rInit
              THEN /\ ConnectReady
                   /\ ConnectOk => FreeThreads # {}
                   /\ IF ConnectOk
                        THEN /\ rNext' = NewSock
                             /\ kState' = [kState EXCEPT ![NewSock] = "open"]
                             /\ sPc' = "top"
                             /\ sSock' = NewSock
                             /\ oPc' = [oPc EXCEPT ![NewThread] = "recv"]
                             /\ oSock' = [oSock EXCEPT ![NewThread] = NewSock]
                             /\ mSockT' = NewThread
                        ELSE UNCHANGED <<rNext, kState, sPc, sSock, oPc, oSock, mSockT>>
                   /\ UNCHANGED mPc
              ELSE /\ mPc' = "finally"
                   /\ UNCHANGED <<rNext, kState, sPc, sSock, oPc, oSock, mSockT>>
     ELSE UNCHANGED <<mPc, rNext, kState, sPc, sSock, oPc, oSock, mSockT>>
  /\ UNCHANGED <<rExit, rInit, rSigPc, rSigIgnored, rStdin, rStdinEof, rCount, rStdout,
                 rDaemonUp, kSrv, kToSrv, kToCli, sLine, sEofPreInit, oBuf>>
  /\ UNCHANGED nonRelayVars

\* finally: EXIT_FLAG = True
MFinally ==
  /\ mPc = "finally"
  /\ rSigPc = "idle"
  /\ rExit' = TRUE
  /\ mPc' = "post"
  /\ UNCHANGED <<rInit, rSigPc, rSigIgnored, rStdin, rStdinEof, rCount, rStdout,
                 rDaemonUp, rNext, kState, kSrv, kToSrv, kToCli, sPc, sSock, sLine,
                 sEofPreInit, oPc, oSock, oBuf, mSockT>>
  /\ UNCHANGED nonRelayVars

\* if INITIALIZED: EXIT_FLAG = False and the reconnection loop is entered;
\* otherwise return 0.
MPost ==
  /\ mPc = "post"
  /\ rSigPc = "idle"
  /\ IF rInit
       THEN rExit' = FALSE /\ mPc' = "stay"
       ELSE mPc' = "returned" /\ UNCHANGED rExit
  /\ UNCHANGED <<rInit, rSigPc, rSigIgnored, rStdin, rStdinEof, rCount, rStdout,
                 rDaemonUp, rNext, kState, kSrv, kToSrv, kToCli, sPc, sSock, sLine,
                 sEofPreInit, oPc, oSock, oBuf, mSockT>>
  /\ UNCHANGED nonRelayVars

\* One turn of the reconnection loop "while True": when a thread is not alive
\* it connects and restarts the threads that are not alive on the new socket.
MStay ==
  /\ mPc = "stay"
  /\ rSigPc = "idle"
  /\ IF ~SAlive \/ ~OAlive(mSockT)
       THEN /\ ConnectReady
            /\ (ConnectOk /\ ~OAlive(mSockT)) => FreeThreads # {}
            /\ IF ConnectOk
                 THEN /\ rNext' = NewSock
                      /\ kState' = [kState EXCEPT ![NewSock] = "open"]
                      /\ IF ~SAlive
                           THEN sPc' = "top" /\ sSock' = NewSock
                           ELSE UNCHANGED <<sPc, sSock>>
                      /\ IF ~OAlive(mSockT)
                           THEN /\ oPc' = [oPc EXCEPT ![NewThread] = "recv"]
                                /\ oSock' = [oSock EXCEPT ![NewThread] = NewSock]
                                /\ mSockT' = NewThread
                           ELSE UNCHANGED <<oPc, oSock, mSockT>>
                 ELSE UNCHANGED <<rNext, kState, sPc, sSock, oPc, oSock, mSockT>>
       ELSE UNCHANGED <<rNext, kState, sPc, sSock, oPc, oSock, mSockT>>
  /\ UNCHANGED <<rExit, rInit, rSigPc, rSigIgnored, rStdin, rStdinEof, rCount, rStdout,
                 rDaemonUp, kSrv, kToSrv, kToCli, sLine, sEofPreInit, oBuf, mPc>>
  /\ UNCHANGED nonRelayVars

\* The steps of the relay itself: its threads and its main thread.
RelaySteps ==
  \/ STop
  \/ SRead
  \/ \E ok \in BOOLEAN : SSend(ok)
  \/ \E ok \in BOOLEAN : SReconnect(ok)
  \/ \E t \in OThreads, k \in 1..MaxChunk : ORecv(t, k)
  \/ \E t \in OThreads : OProcess(t)
  \/ \E t \in OThreads : OFinally(t)
  \/ MStart
  \/ MLoop
  \/ MFinally
  \/ MPost
  \/ MStay

NextRelay ==
  \/ \E line \in RelayLines(rCount + 1) : RClientWrite(line)
  \/ RClientEof
  \/ \E c \in RConns : EServe(c)
  \/ \E c \in RConns : EClose(c)
  \/ EDaemonToggle
  \/ RSignal
  \/ RSignalSet
  \/ STop
  \/ SRead
  \/ \E ok \in BOOLEAN : SSend(ok)
  \/ \E ok \in BOOLEAN : SReconnect(ok)
  \/ \E t \in OThreads, k \in 1..MaxChunk : ORecv(t, k)
  \/ \E t \in OThreads : OProcess(t)
  \/ \E t \in OThreads : OFinally(t)
  \/ MStart
  \/ MLoop
  \/ MFinally
  \/ MPost
  \/ MStay

(***************************************************************************)
(* The standalone stdio servers: src/standalone-mcp-server.py (variables    *)
(* t...) and src/src/standalone-mcp-server.py (variables u...).  They are   *)
(* two programs; a run is a run of one of them.                            *)
(***************************************************************************)
\* The lines a client may write as the n-th line of a standalone server's
\* standard input.
StandaloneLines(n) ==
  { Obj(n, "initialize", FALSE), Obj(n, "tools/call", TRUE),
    Obj(n, "tools/call", FALSE), Obj(n, "shutdown", FALSE),
    Obj(n, "foo", FALSE), Bad }

\* The signals the servers' users may send.
TermSignals == {"SIGTERM", "SIGINT", "SIGHUP"}

NoSignal == [n |-> 0, sig |-> "none", st |-> "none", ign |-> FALSE]

InitStandT ==
  /\ tExit = FALSE
  /\ tIgnore = FALSE
  /\ tState = "waiting"
  /\ tStdin = <<>>
  /\ tCount = 0
  /\ tQueue = <<>>
  /\ tEvent = FALSE
  /\ tInPc = "read"
  /\ tPc = "top"
  /\ tMsg = Bad
  /\ tResp = Bad
  /\ tOut = <<>>
  /\ tSig = NoSignal

InitStandU ==
  /\ uExit = FALSE
  /\ uState = "waiting"
  /\ uStdin = <<>>
  /\ uCount = 0
  /\ uEof = FALSE
  /\ uPc = "top"
  /\ uOut = <<>>
  /\ uSig = NoSignal

InitStandalone ==
  /\ prog \in {"standalone", "src_standalone"}
  /\ tRhinoUp \in (IF prog = "standalone" THEN BOOLEAN ELSE {FALSE})
  /\ InitStandT
  /\ InitStandU

IdleStandalone ==
  /\ prog = "none"
  /\ tRhinoUp = FALSE
  /\ InitStandT
  /\ InitStandU

\* ---- src/standalone-mcp-server.py
TRunning == prog = "standalone" /\ tPc # "done"

TClientWrite(line) ==
  /\ TRunning
  /\ tCount < MaxSLines
  /\ tStdin' = Append(tStdin, line)
  /\ tCount' = tCount + 1
  /\ UNCHANGED <<tExit, tIgnore, tState, tQueue, tEvent, tInPc, tPc, tMsg, tResp, tOut,
                 tRhinoUp, tSig>>
  /\ UNCHANGED <<prog, uVars>>
  /\ UNCHANGED nonStandVars

\* persist_stdin: one line is read and put on MESSAGE_QUEUE; the thread ends
\* when it finds EXIT_FLAG set at the top of its loop.
TStdinRead ==
  /\ TRunning
  /\ tInPc = "read"
  /\ IF tExit
       THEN /\ tInPc' = "dead"
            /\ UNCHANGED <<tStdin, tQueue>>
       ELSE /\ tStdin # <<>>
            /\ tQueue' = Append(tQueue, Head(tStdin))
            /\ tStdin' = Tail(tStdin)
            /\ tInPc' = "set"
  /\ UNCHANGED <<tExit, tIgnore, tState, tCount, tEvent, tPc, tMsg, tResp, tOut,
                 tRhinoUp, tSig>>
  /\ UNCHANGED <<prog, uVars>>
  /\ UNCHANGED nonStandVars

\* persist_stdin: NEW_MESSAGE_EVENT.set()
TStdinSet ==
  /\ TRunning
  /\ tInPc = "set"
  /\ tEvent' = TRUE
  /\ tInPc' = "read"
  /\ UNCHANGED <<tExit, tIgnore, tState, tStdin, tCount, tQueue, tPc, tMsg, tResp, tOut,
                 tRhinoUp, tSig>>
  /\ UNCHANGED <<prog, uVars>>
  /\ UNCHANGED nonStandVars

\* A variant of the main loop that goes on whatever EXIT_FLAG holds.
TTopUnconditional ==
  /\ TRunning
  /\ tPc = "top"
  /\ tPc' = "get"
  /\ UNCHANGED <<tExit, tIgnore, tState, tStdin, tCount, tQueue, tEvent, tInPc, tMsg,
                 tResp, tOut, tRhinoUp, tSig>>
  /\ UNCHANGED <<prog, uVars>>
  /\ UNCHANGED nonStandVars

\* main_loop: while not EXIT_FLAG
TTop ==
  /\ TRunning
  /\ tPc = "top"
  /\ tPc' = IF tExit THEN "done" ELSE "get"
  /\ UNCHANGED <<tExit, tIgnore, tState, tStdin, tCount, tQueue, tEvent, tInPc, tMsg,
                 tResp, tOut, tRhinoUp, tSig>>
  /\ UNCHANGED <<prog, uVars>>
  /\ UNCHANGED nonStandVars

\* main_loop: message = MESSAGE_QUEUE.get(block=False)
TGet ==
  /\ TRunning
  /\ tPc = "get"
  /\ IF tQueue # <<>>
       THEN /\ tMsg' = Head(tQueue)
            /\ tQueue' = Tail(tQueue)
            /\ tPc' = "process"
       ELSE /\ tPc' = "wait"
            /\ UNCHANGED <<tMsg, tQueue>>
  /\ UNCHANGED <<tExit, tIgnore, tState, tStdin, tCount, tEvent, tInPc, tResp, tOut,
                 tRhinoUp, tSig>>
  /\ UNCHANGED <<prog, uVars>>
  /\ UNCHANGED nonStandVars

\* main_loop: NEW_MESSAGE_EVENT.wait(0.1) returns, on the event or on the timeout
TWait ==
  /\ TRunning
  /\ tPc = "wait"
  /\ tPc' = "clear"
  /\ UNCHANGED <<tExit, tIgnore, tState, tStdin, tCount, tQueue, tEvent, tInPc, tMsg,
                 tResp, tOut, tRhinoUp, tSig>>
  /\ UNCHANGED <<prog, uVars>>
  /\ UNCHANGED nonStandVars

\* A variant of the main loop that, having cleared the event, waits for it
\* again without looking at the queue.
TClearThenWait ==
  /\ TRunning
  /\ tPc = "clear"
  /\ tEvent' = FALSE
  /\ tPc' = IF tExit THEN "done" ELSE "wait"
  /\ UNCHANGED <<tExit, tIgnore, tState, tStdin, tCount, tQueue, tInPc, tMsg, tResp,
                 tOut, tRhinoUp, tSig>>
  /\ UNCHANGED <<prog, uVars>>
  /\ UNCHANGED nonStandVars

\* main_loop: NEW_MESSAGE_EVENT.clear(); with the queue still empty the loop
\* ends if EXIT_FLAG is set, and it starts over otherwise.
TClear ==
  /\ TRunning
  /\ tPc = "clear"
  /\ tEvent' = FALSE
  /\ tPc' = IF tQueue = <<>> /\ tExit THEN "done" ELSE "top"
  /\ UNCHANGED <<tExit, tIgnore, tState, tStdin, tCount, tQueue, tInPc, tMsg, tResp,
                 tOut, tRhinoUp, tSig>>
  /\ UNCHANGED <<prog, uVars>>
  /\ UNCHANGED nonStandVars

\* process_message up to the first assignment of the handler it calls:
\* handle_initialize sets IGNORE_SIGNALS, handle_tool_call sets SERVER_STATE to
\* "processing" (and raises KeyError on a request without params, which
\* process_message answers with an internal error of id 0), handle_shutdown
\* sets EXIT_FLAG; a line that is not a JSON object is answered with an
\* internal error of id 0 and any other method with method-not-found.
TProcess ==
  /\ TRunning
  /\ tPc = "process"
  /\ IF tMsg.t # "obj"
       THEN /\ tResp' = ErrorResp(0, InternalError)
            /\ tPc' = "send"
            /\ UNCHANGED <<tExit, tIgnore, tState>>
     ELSE IF MethodOf(tMsg) = "initialize"
       THEN /\ tIgnore' = TRUE
            /\ tPc' = "init1"
            /\ UNCHANGED <<tExit, tState, tResp>>
     ELSE IF MethodOf(tMsg) = "tools/call"
       THEN /\ tState' = "processing"
            /\ IF tMsg.params
                 THEN tPc' = "tool1" /\ UNCHANGED tResp
                 ELSE tPc' = "send" /\ tResp' = ErrorResp(0, InternalError)
            /\ UNCHANGED <<tExit, tIgnore>>
     ELSE IF MethodOf(tMsg) = "shutdown"
       THEN /\ tExit' = TRUE
            /\ tResp' = Result(IdOf(tMsg), "success")
            /\ tPc' = "send"
            /\ UNCHANGED <<tIgnore, tState>>
     ELSE /\ tResp' = ErrorResp(IdOf(tMsg), MethodNotFound)
          /\ tPc' = "send"
          /\ UNCHANGED <<tExit, tIgnore, tState>>
  /\ UNCHANGED <<tStdin, tCount, tQueue, tEvent, tInPc, tMsg, tOut, tRhinoUp, tSig>>
  /\ UNCHANGED <<prog, uVars>>
  /\ UNCHANGED nonStandVars

\* handle_initialize, the try block: SERVER_STATE = "initialized"
TInitBody ==
  /\ TRunning
  /\ tPc = "init1"
  /\ tState' = "initialized"
  /\ tPc' = "init2"
  /\ UNCHANGED <<tExit, tIgnore, tStdin, tCount, tQueue, tEvent, tInPc, tMsg, tResp,
                 tOut, tRhinoUp, tSig>>
  /\ UNCHANGED <<prog, uVars>>
  /\ UNCHANGED nonStandVars

\* A variant of handle_initialize without the finally clause: the response is
\* returned with IGNORE_SIGNALS left as the try block found it.
TInitReturnsIgnoring ==
  /\ TRunning
  /\ tPc = "init2"
  /\ tResp' = Result(IdOf(tMsg), "capabilities")
  /\ tPc' = "send"
  /\ UNCHANGED <<tExit, tIgnore, tState, tStdin, tCount, tQueue, tEvent, tInPc, tMsg,
                 tOut, tRhinoUp, tSig>>
  /\ UNCHANGED <<prog, uVars>>
  /\ UNCHANGED nonStandVars

\* handle_initialize, the finally clause: IGNORE_SIGNALS = False
TInitFinally ==
  /\ TRunning
  /\ tPc = "init2"
  /\ tIgnore' = FALSE
  /\ tResp' = Result(IdOf(tMsg), "capabilities")
  /\ tPc' = "send"
  /\ UNCHANGED <<tExit, tState, tStdin, tCount, tQueue, tEvent, tInPc, tMsg, tOut,
                 tRhinoUp, tSig>>
  /\ UNCHANGED <<prog, uVars>>
  /\ UNCHANGED nonStandVars

\* handle_tool_call from send_to_rhino on: the result of Rhino, or the error
\* object when Rhino cannot be reached, then SERVER_STATE = "initialized".
TToolCall ==
  /\ TRunning
  /\ tPc = "tool1"
  /\ tResp' = Result(IdOf(tMsg), IF tRhinoUp THEN "tool" ELSE "rhino_error")
  /\ tState' = "initialized"
  /\ tPc' = "send"
  /\ UNCHANGED <<tExit, tIgnore, tStdin, tCount, tQueue, tEvent, tInPc, tMsg, tOut,
                 tRhinoUp, tSig>>
  /\ UNCHANGED <<prog, uVars>>
  /\ UNCHANGED nonStandVars

\* main_loop: send_json_response(response)
TSend ==
  /\ TRunning
  /\ tPc = "send"
  /\ tOut' = Append(tOut, tResp)
  /\ tMsg' = Bad
  /\ tResp' = Bad
  /\ tPc' = "top"
  /\ UNCHANGED <<tExit, tIgnore, tState, tStdin, tCount, tQueue, tEvent, tInPc,
                 tRhinoUp, tSig>>
  /\ UNCHANGED <<prog, uVars>>
  /\ UNCHANGED nonStandVars

\* A variant of the handler that also consults SERVER_STATE.
TSignalByState(sig) ==
  /\ TRunning
  /\ tSig.n < MaxSignals
  /\ tSig' = [n |-> tSig.n + 1, sig |-> sig, st |-> tState, ign |-> tIgnore]
  /\ tExit' = (tExit \/ (~tIgnore /\ tState \notin {"initialized", "processing"}))
  /\ UNCHANGED <<tIgnore, tState, tStdin, tCount, tQueue, tEvent, tInPc, tPc, tMsg,
                 tResp, tOut, tRhinoUp>>
  /\ UNCHANGED <<prog, uVars>>
  /\ UNCHANGED nonStandVars

\* signal_handler, registered for SIGTERM, SIGINT and SIGHUP and run on the
\* main thread: return if IGNORE_SIGNALS, else EXIT_FLAG = True.
TSignal(sig) ==
  /\ TRunning
  /\ tSig.n < MaxSignals
  /\ tSig' = [n |-> tSig.n + 1, sig |-> sig, st |-> tState, ign |-> tIgnore]
  /\ tExit' = (tExit \/ ~tIgnore)
  /\ UNCHANGED <<tIgnore, tState, tStdin, tCount, tQueue, tEvent, tInPc, tPc, tMsg,
                 tResp, tOut, tRhinoUp>>
  /\ UNCHANGED <<prog, uVars>>
  /\ UNCHANGED nonStandVars

\* ---- src/src/standalone-mcp-server.py
URunning == prog = "src_standalone" /\ uPc \notin {"done", "killed"}

UClientWrite(line) ==
  /\ URunning
  /\ ~uEof
  /\ uCount < MaxSLines
  /\ uStdin' = Append(uStdin, line)
  /\ uCount' = uCount + 1
  /\ UNCHANGED <<uExit, uState, uEof, uPc, uOut, uSig>>
  /\ UNCHANGED <<prog, tVars>>
  /\ UNCHANGED nonStandVars

UClientEof ==
  /\ URunning
  /\ ~uEof
  /\ uEof' = TRUE
  /\ UNCHANGED <<uExit, uState, uStdin, uCount, uPc, uOut, uSig>>
  /\ UNCHANGED <<prog, tVars>>
  /\ UNCHANGED nonStandVars

\* main: while not EXIT_FLAG
UTop ==
  /\ URunning
  /\ uPc = "top"
  /\ uPc' = IF uExit THEN "done" ELSE "read"
  /\ UNCHANGED <<uExit, uState, uStdin, uCount, uEof, uOut, uSig>>
  /\ UNCHANGED <<prog, tVars>>
  /\ UNCHANGED nonStandVars

\* process_message and the handlers: what is printed, the new SERVER_STATE and
\* EXIT_FLAG, and whether the main loop goes on.  A line that is not JSON is
\* skipped; an exception (a line that is not an object, a tools/call without
\* params) is logged; unknown methods get no response.
UProcessMessage(msg, state) ==
  IF msg.t # "obj"
    THEN [send |-> <<>>, state |-> state, exit |-> FALSE, go |-> TRUE]
  ELSE IF MethodOf(msg) = "initialize"
    THEN [send |-> <<Result(IdOf(msg), "capabilities")>>, state |-> "initialized",
          exit |-> FALSE, go |-> TRUE]
  ELSE IF MethodOf(msg) = "tools/call"
    THEN [send |-> IF msg.params THEN <<Result(IdOf(msg), "tool")>> ELSE <<>>,
          state |-> state, exit |-> FALSE, go |-> TRUE]
  ELSE IF MethodOf(msg) = "shutdown"
    THEN [send |-> <<Result(IdOf(msg), "success")>>, state |-> state,
          exit |-> TRUE, go |-> FALSE]
  ELSE [send |-> <<>>, state |-> state, exit |-> FALSE, go |-> TRUE]

\* main: line = input() and its processing; on end-of-file the loop goes on
\* if SERVER_STATE is "initialized" and ends otherwise.
URead ==
  /\ URunning
  /\ uPc = "read"
  /\ IF uStdin # <<>>
       THEN LET r == UProcessMessage(Head(uStdin), uState)
            IN  /\ uStdin' = Tail(uStdin)
                /\ uOut' = uOut \o r.send
                /\ uState' = r.state
                /\ uExit' = (uExit \/ r.exit)
                /\ uPc' = IF r.go THEN "top" ELSE "done"
       ELSE /\ uEof
            /\ uPc' = IF uState = "initialized" THEN "top" ELSE "done"
            /\ UNCHANGED <<uStdin, uOut, uState, uExit>>
  /\ UNCHANGED <<uCount, uEof, uSig>>
  /\ UNCHANGED <<prog, tVars>>
  /\ UNCHANGED nonStandVars

\* signal_handler, registered for SIGTERM and SIGINT: return if SERVER_STATE
\* is "initialized" and the signal is SIGTERM, else EXIT_FLAG = True.  No
\* handler is registered for SIGHUP, whose default action ends the process.
USignal(sig) ==
  /\ URunning
  /\ uSig.n < MaxSignals
  /\ uSig' = [n |-> uSig.n + 1, sig |-> sig, st |-> uState, ign |-> FALSE]
  /\ IF sig = "SIGHUP"
       THEN uPc' = "killed" /\ UNCHANGED uExit
       ELSE /\ uExit' = (uExit \/ ~(uState = "initialized" /\ sig = "SIGTERM"))
            /\ UNCHANGED uPc
  /\ UNCHANGED <<uState, uStdin, uCount, uEof, uOut>>
  /\ UNCHANGED <<prog, tVars>>
  /\ UNCHANGED nonStandVars

\* The steps of main_loop on the main thread.
TMainSteps ==
  \/ TTop
  \/ TGet
  \/ TWait
  \/ TClear
  \/ TProcess
  \/ TInitBody
  \/ TInitFinally
  \/ TToolCall
  \/ TSend

NextStandalone ==
  \/ \E line \in StandaloneLines(tCount + 1) : TClientWrite(line)
  \/ TStdinRead
  \/ TStdinSet
  \/ TTop
  \/ TGet
  \/ TWait
  \/ TClear
  \/ TProcess
  \/ TInitBody
  \/ TInitFinally
  \/ TToolCall
  \/ TSend
  \/ \E sig \in TermSignals : TSignal(sig)
  \/ \E line \in StandaloneLines(uCount + 1) : UClientWrite(line)
  \/ UClientEof
  \/ UTop
  \/ URead
  \/ \E sig \in TermSignals : USignal(sig)

(***************************************************************************)
(* The three servers side by side: a run is a run of the daemon, of        *)
(* src/standalone-mcp-server.py or of src/src/standalone-mcp-server.py.    *)
(***************************************************************************)
InitServers ==
  /\ prog \in {"daemon", "standalone", "src_standalone"}
  /\ tRhinoUp \in (IF prog = "standalone" THEN BOOLEAN ELSE {FALSE})
  /\ InitStandT
  /\ InitStandU

NextServers ==
  \/ prog = "daemon" /\ \E c \in DConns : DClientConnect(c)
  \/ prog = "daemon" /\ \E c \in DConns : \E line \in ClientLines(dCount[c] + 1) : DClientSend(c, line)
  \/ prog = "daemon" /\ \E c \in DConns, how \in CloseKinds : DClientClose(c, how)
  \/ prog = "daemon" /\ \E c \in DConns, k \in 1..MaxChunk : DRecv(c, k)
  \/ prog = "daemon" /\ \E c \in DConns, ok \in BOOLEAN : DProcess(c, ok)
  \/ prog = "daemon" /\ DSignal
  \/ prog = "daemon" /\ DSignalSet
  \/ prog = "daemon" /\ DMainExit
  \/ \E line \in StandaloneLines(tCount + 1) : TClientWrite(line)
  \/ TStdinRead
  \/ TStdinSet
  \/ TTop
  \/ TGet
  \/ TWait
  \/ TClear
  \/ TProcess
  \/ TInitBody
  \/ TInitFinally
  \/ TToolCall
  \/ TSend
  \/ \E sig \in TermSignals : TSignal(sig)
  \/ \E line \in StandaloneLines(uCount + 1) : UClientWrite(line)
  \/ UClientEof
  \/ UTop
  \/ URead
  \/ \E sig \in TermSignals : USignal(sig)

(***************************************************************************)
(* The clients of the Rhino endpoint: send_to_rhino of                     *)
(* src/standalone-mcp-server.py and RhinoConnection.send_command of        *)
(* src/combined_mcp_server.py.  Rhino is the environment: a connection     *)
(* attempt succeeds or fails, and a command is answered with a result,     *)
(* answered with an error inside a well-formed response, not answered in   *)
(* time, or the connection is reset or closed.                             *)
(***************************************************************************)
BConns == 1..MaxBConn

\* What Rhino does with a command that was sent.
BOutcomes == {"ok", "app_error", "timeout", "reset", "empty"}

\* What a call gives its caller: it returns a value or raises, the type of
\* the value or of the exception, and whether the value is JSON with an
\* "error" member.  origin records what really happened: a transport failure,
\* an application error inside a well-formed response, or neither.
BResult(how, type, error, origin) ==
  [how |-> how, type |-> type, error |-> error, origin |-> origin]

InitBackend ==
  /\ bClient \in {"send_to_rhino", "send_command"}
  /\ bPc = "idle"
  /\ bSock = 0
  /\ bConn = [c \in BConns |-> "unused"]
  /\ bUsed = [c \in BConns |-> 0]
  /\ bNext = 0
  /\ bResults = <<>>

IdleBackend ==
  /\ bClient = "none"
  /\ bPc = "idle"
  /\ bSock = 0
  /\ bConn = [c \in BConns |-> "unused"]
  /\ bUsed = [c \in BConns |-> 0]
  /\ bNext = 0
  /\ bResults = <<>>

\* A socket object that nothing refers to any more is closed when the
\* interpreter finalizes it, which the language does not promise to happen
\* by any given time: it is closed (TRUE) or still open (FALSE).
BDropped(conn, c, finalized) ==
  [conn EXCEPT ![c] = IF finalized THEN "closed" ELSE "open"]

\* The start of a call, up to sendall.  send_to_rhino creates a socket and
\* connects; send_command uses self.sock when it is set and connects
\* otherwise.  When the connection attempt fails send_to_rhino returns the
\* string json.dumps({"error": ...}) and send_command raises ConnectionError.
BCall(connects) ==
  /\ bClient \in {"send_to_rhino", "send_command"}
  /\ bPc = "idle"
  /\ Len(bResults) < MaxBCalls
  /\ IF bClient = "send_command" /\ bSock # 0
       THEN /\ connects
            /\ bUsed' = [bUsed EXCEPT ![bSock] = @ + 1]
            /\ bPc' = "wait"
            /\ UNCHANGED <<bNext, bSock, bConn, bResults>>
     ELSE IF connects
       THEN /\ bNext < MaxBConn
            /\ bNext' = bNext + 1
            /\ bSock' = bNext + 1
            /\ bConn' = [bConn EXCEPT ![bNext + 1] = "open"]
            /\ bUsed' = [bUsed EXCEPT ![bNext + 1] = 1]
            /\ bPc' = "wait"
            /\ UNCHANGED bResults
       ELSE /\ bResults' = Append(bResults,
                             IF bClient = "send_to_rhino"
                               THEN BResult("return", "str", TRUE, "transport")
                               ELSE BResult("raise", "ConnectionError", FALSE, "transport"))
            /\ UNCHANGED <<bNext, bSock, bConn, bUsed, bPc>>
  /\ UNCHANGED bClient
  /\ UNCHANGED nonBackendVars

\* send_to_rhino from recv on.  A response, whatever it says, is returned as
\* a string after sock.close(); an empty read gives the empty string; a
\* timeout or a reset raises, the handler returns the string
\* json.dumps({"error": ...}) and the socket is not closed, only dropped.
SendToRhinoReturn(outcome, finalized) ==
  /\ bClient = "send_to_rhino"
  /\ bPc = "wait"
  /\ IF outcome \in {"ok", "app_error", "empty"}
       THEN /\ finalized
            /\ bConn' = [bConn EXCEPT ![bSock] = "closed"]
            /\ bResults' = Append(bResults,
                 CASE outcome = "ok"        -> BResult("return", "str", FALSE, "none")
                   [] outcome = "app_error" -> BResult("return", "str", TRUE, "application")
                   [] outcome = "empty"     -> BResult("return", "empty str", FALSE, "transport"))
       ELSE /\ bConn' = BDropped(bConn, bSock, finalized)
            /\ bResults' = Append(bResults, BResult("return", "str", TRUE, "transport"))
  /\ bSock' = 0
  /\ bPc' = "idle"
  /\ UNCHANGED <<bClient, bUsed, bNext>>
  /\ UNCHANGED nonBackendVars

\* send_command from recv on.  A result is returned and the connection is
\* kept for the next call.  An error inside the response raises Exception
\* inside the try block; it, like a timeout, a reset or an empty read, is
\* caught by a handler that sets self.sock = None without closing the socket
\* and raises Exception again.
SendCommandReturn(outcome, finalized) ==
  /\ bClient = "send_command"
  /\ bPc = "wait"
  /\ IF outcome = "ok"
       THEN /\ finalized
            /\ bResults' = Append(bResults, BResult("return", "dict", FALSE, "none"))
            /\ UNCHANGED <<bConn, bSock>>
       ELSE /\ bConn' = BDropped(bConn, bSock, finalized)
            /\ bSock' = 0
            /\ bResults' = Append(bResults,
                 BResult("raise", "Exception", FALSE,
                         IF outcome = "app_error" THEN "application" ELSE "transport"))
  /\ bPc' = "idle"
  /\ UNCHANGED <<bClient, bUsed, bNext>>
  /\ UNCHANGED nonBackendVars

NextBackend ==
  \/ \E connects \in BOOLEAN : BCall(connects)
  \/ \E outcome \in BOutcomes, finalized \in BOOLEAN : SendToRhinoReturn(outcome, finalized)
  \/ \E outcome \in BOutcomes, finalized \in BOOLEAN : SendCommandReturn(outcome, finalized)

(***************************************************************************)
(* The relay's startup, src/src/socket_proxy.py: main() up to the start of *)
(* the forwarding threads, ensure_daemon_running and connect_to_daemon.    *)
(* The environment is the PID lock file as the relay finds it and the      *)
(* daemon the relay spawns, which writes the lock when it starts           *)
(* (src/src/daemon_mcp_server.py) and then listens.                        *)
(***************************************************************************)
\* for _ in range(10): the number of times ensure_daemon_running looks for
\* the lock after spawning
PollAttempts == 10
\* for i in range(5): the number of connection attempts of connect_to_daemon
ConnectAttempts == 5

\* What the lock file may hold when the relay starts: nothing (no file), the
\* id of a live process the relay may signal, the id of no process, the id
\* of a live process the relay may not signal (os.kill raises
\* PermissionError, an OSError), or text that is not an integer.
LockStates == {"absent", "live", "dead", "foreign", "garbage"}

\* The lock names a process that is alive.
LockNamesLive(lock) == lock \in {"live", "foreign"}

\* os.kill(pid, 0) after int(f.read().strip()): returns for a process the
\* relay may signal, raises OSError or ValueError otherwise.
KillZeroReturns(lock) == lock = "live"

InitStartup ==
  /\ gPc = "ensure"
  /\ gLock \in LockStates
  /\ gSeen = "none"
  /\ gSpawned = 0
  /\ gPolls = 0
  /\ gEnsure = "none"
  /\ gAttempt = 0
  /\ gSlept = <<>>
  /\ gSock = "none"
  /\ gThreads = 0
  /\ gStatus = -1
  /\ gDaemon = "none"
  /\ gListen \in BOOLEAN

IdleStartup ==
  /\ gPc = "off"
  /\ gLock = "absent"
  /\ gSeen = "none"
  /\ gSpawned = 0
  /\ gPolls = 0
  /\ gEnsure = "none"
  /\ gAttempt = 0
  /\ gSlept = <<>>
  /\ gSock = "none"
  /\ gThreads = 0
  /\ gStatus = -1
  /\ gDaemon = "none"
  /\ gListen = FALSE

\* ---- ensure_daemon_running
\* if os.path.exists(pid_file): read the id and os.kill(pid, 0); return True
\* when that returns; on OSError or ValueError os.remove(pid_file), whose
\* failure is ignored (removed is FALSE), and go on to start the daemon.
EnsureCheck(removed) ==
  /\ gPc = "ensure"
  /\ gSeen' = gLock
  /\ IF gLock = "absent"
       THEN /\ removed
            /\ gPc' = "spawn"
            /\ UNCHANGED <<gLock, gEnsure>>
     ELSE IF KillZeroReturns(gLock)
       THEN /\ removed
            /\ gPc' = "ensured"
            /\ gEnsure' = "true"
            /\ UNCHANGED gLock
       ELSE /\ gPc' = "spawn"
            /\ gLock' = IF removed THEN "absent" ELSE gLock
            /\ UNCHANGED gEnsure
  /\ UNCHANGED <<gSpawned, gPolls, gAttempt, gSlept, gSock, gThreads, gStatus,
                 gDaemon, gListen>>
  /\ UNCHANGED nonStartupVars

\* os.chmod and subprocess.Popen: the daemon is started, or an exception is
\* raised and ensure_daemon_running returns False.
EnsureSpawn(started) ==
  /\ gPc = "spawn"
  /\ IF started
       THEN /\ gSpawned' = gSpawned + 1
            /\ gDaemon' = "spawned"
            /\ gPc' = "poll"
            /\ UNCHANGED gEnsure
       ELSE /\ gEnsure' = "false"
            /\ gPc' = "ensured"
            /\ UNCHANGED <<gSpawned, gDaemon>>
  /\ UNCHANGED <<gLock, gSeen, gPolls, gAttempt, gSlept, gSock, gThreads, gStatus,
                 gListen>>
  /\ UNCHANGED nonStartupVars

\* One turn of "for _ in range(10)": return True if the lock exists, sleep
\* otherwise; return False after the last turn.
EnsurePoll ==
  /\ gPc = "poll"
  /\ IF gLock # "absent"
       THEN /\ gEnsure' = "true"
            /\ gPc' = "ensured"
            /\ UNCHANGED gPolls
       ELSE /\ gPolls' = gPolls + 1
            /\ IF gPolls + 1 = PollAttempts
                 THEN gEnsure' = "false" /\ gPc' = "ensured"
                 ELSE UNCHANGED <<gEnsure, gPc>>
  /\ UNCHANGED <<gLock, gSeen, gSpawned, gAttempt, gSlept, gSock, gThreads, gStatus,
                 gDaemon, gListen>>
  /\ UNCHANGED nonStartupVars

\* ---- connect_to_daemon
\* A variant of the attempt that gives up one failure later.
ConnectAttemptOneMore(ok) ==
  /\ gPc = "connect"
  /\ ok => gListen
  /\ IF ok
       THEN /\ gSock' = "sock"
            /\ gPc' = "connected"
            /\ UNCHANGED <<gAttempt, gSlept>>
       ELSE /\ gSlept' = Append(gSlept, 2 ^ gAttempt)
            /\ gAttempt' = gAttempt + 1
            /\ IF gAttempt + 1 = ConnectAttempts + 1
                 THEN gSock' = "None" /\ gPc' = "connected"
                 ELSE UNCHANGED <<gSock, gPc>>
  /\ UNCHANGED <<gLock, gSeen, gSpawned, gPolls, gEnsure, gThreads, gStatus, gDaemon,
                 gListen>>
  /\ UNCHANGED nonStartupVars

\* One turn of "for i in range(5)": a socket is created and connected, and
\* returned on success; on a failure the function sleeps 2 ** i seconds; it
\* returns None after the last turn.
ConnectAttempt(ok) ==
  /\ gPc = "connect"
  /\ ok => gListen
  /\ IF ok
       THEN /\ gSock' = "sock"
            /\ gPc' = "connected"
            /\ UNCHANGED <<gAttempt, gSlept>>
       ELSE /\ gSlept' = Append(gSlept, 2 ^ gAttempt)
            /\ gAttempt' = gAttempt + 1
            /\ IF gAttempt + 1 = ConnectAttempts
                 THEN gSock' = "None" /\ gPc' = "connected"
                 ELSE UNCHANGED <<gSock, gPc>>
  /\ UNCHANGED <<gLock, gSeen, gSpawned, gPolls, gEnsure, gThreads, gStatus, gDaemon,
                 gListen>>
  /\ UNCHANGED nonStartupVars

\* ---- main()
\* if not ensure_daemon_running(): return 1; otherwise connect_to_daemon()
MainEnsured ==
  /\ gPc = "ensured"
  /\ IF gEnsure = "true"
       THEN gPc' = "connect" /\ UNCHANGED gStatus
       ELSE gPc' = "returned" /\ gStatus' = 1
  /\ UNCHANGED <<gLock, gSeen, gSpawned, gPolls, gEnsure, gAttempt, gSlept, gSock,
                 gThreads, gDaemon, gListen>>
  /\ UNCHANGED nonStartupVars

\* A variant of main() that starts the threads whatever connect_to_daemon
\* returned.
MainConnectedUnchecked ==
  /\ gPc = "connected"
  /\ gPc' = "running"
  /\ gThreads' = 2
  /\ UNCHANGED <<gLock, gSeen, gSpawned, gPolls, gEnsure, gAttempt, gSlept, gSock,
                 gStatus, gDaemon, gListen>>
  /\ UNCHANGED nonStartupVars

\* if not sock: return 1; otherwise both forwarding threads are started.
MainConnected ==
  /\ gPc = "connected"
  /\ IF gSock = "sock"
       THEN gPc' = "running" /\ gThreads' = 2 /\ UNCHANGED gStatus
       ELSE gPc' = "returned" /\ gStatus' = 1 /\ UNCHANGED gThreads
  /\ UNCHANGED <<gLock, gSeen, gSpawned, gPolls, gEnsure, gAttempt, gSlept, gSock,
                 gDaemon, gListen>>
  /\ UNCHANGED nonStartupVars

\* ---- the spawned daemon
\* The daemon writes its process id to the lock file when the module is
\* loaded.
DaemonWritesLock ==
  /\ gDaemon = "spawned"
  /\ gDaemon' = "locked"
  /\ gLock' = "live"
  /\ UNCHANGED <<gPc, gSeen, gSpawned, gPolls, gEnsure, gAttempt, gSlept, gSock,
                 gThreads, gStatus, gListen>>
  /\ UNCHANGED nonStartupVars

\* ThreadedTCPServer(('localhost', SOCKET_PORT), ...): the daemon listens, or
\* the port is taken, the daemon ends and its atexit handler removes the lock.
DaemonListens ==
  /\ gDaemon = "locked"
  /\ IF gListen
       THEN gDaemon' = "died" /\ gLock' = "absent" /\ UNCHANGED gListen
       ELSE gDaemon' = "serving" /\ gListen' = TRUE /\ UNCHANGED gLock
  /\ UNCHANGED <<gPc, gSeen, gSpawned, gPolls, gEnsure, gAttempt, gSlept, gSock,
                 gThreads, gStatus>>
  /\ UNCHANGED nonStartupVars

\* The spawned process ends before it has written the lock.
DaemonFailsToStart ==
  /\ gDaemon = "spawned"
  /\ gDaemon' = "died"
  /\ UNCHANGED <<gPc, gLock, gSeen, gSpawned, gPolls, gEnsure, gAttempt, gSlept, gSock,
                 gThreads, gStatus, gListen>>
  /\ UNCHANGED nonStartupVars

\* The steps of the relay's main thread.
StartupSteps ==
  \/ \E removed \in BOOLEAN : EnsureCheck(removed)
  \/ \E started \in BOOLEAN : EnsureSpawn(started)
  \/ EnsurePoll
  \/ \E ok \in BOOLEAN : ConnectAttempt(ok)
  \/ MainEnsured
  \/ MainConnected

NextStartup ==
  \/ \E removed \in BOOLEAN : EnsureCheck(removed)
  \/ \E started \in BOOLEAN : EnsureSpawn(started)
  \/ EnsurePoll
  \/ \E ok \in BOOLEAN : ConnectAttempt(ok)
  \/ MainEnsured
  \/ MainConnected
  \/ DaemonWritesLock
  \/ DaemonListens
  \/ DaemonFailsToStart

(***************************************************************************)
(* Relays that start at the same time with no daemon running: each runs    *)
(* ensure_daemon_running (src/src/socket_proxy.py) and may spawn a daemon, *)
(* which writes the PID lock file when its module is loaded and removes it *)
(* when it exits (src/src/daemon_mcp_server.py).  Daemon p is the one      *)
(* relay p spawns.                                                         *)
(***************************************************************************)
LRelays == 1..MaxLRelays

InitLock ==
  /\ lPc = [r \in LRelays |-> "check"]
  /\ lPolls = [r \in LRelays |-> 0]
  /\ lLock = 0
  /\ lDaemon = [p \in LRelays |-> "none"]
  /\ lPort = 0

IdleLock ==
  /\ lPc = [r \in LRelays |-> "off"]
  /\ lPolls = [r \in LRelays |-> 0]
  /\ lLock = 0
  /\ lDaemon = [p \in LRelays |-> "none"]
  /\ lPort = 0

\* os.kill(pid, 0) returns: the process is alive
LDaemonAlive(p) == lDaemon[p] \in {"spawned", "locked", "serving"}

\* ensure_daemon_running: if os.path.exists(pid_file), read the id and
\* os.kill(pid, 0); return True when that returns, go on to remove the file
\* when it raises; with no file go on to start the daemon.
LEnsureCheck(r) ==
  /\ lPc[r] = "check"
  /\ lPc' = [lPc EXCEPT ![r] =
               IF lLock = 0 THEN "spawn"
               ELSE IF LDaemonAlive(lLock) THEN "true" ELSE "remove"]
  /\ UNCHANGED <<lPolls, lLock, lDaemon, lPort>>
  /\ UNCHANGED nonLockVars

\* os.remove(pid_file) in the except branch, a failure being ignored: the
\* file that is there now is removed.
LEnsureRemove(r) ==
  /\ lPc[r] = "remove"
  /\ lLock' = 0
  /\ lPc' = [lPc EXCEPT ![r] = "spawn"]
  /\ UNCHANGED <<lPolls, lDaemon, lPort>>
  /\ UNCHANGED nonLockVars

\* os.chmod and subprocess.Popen: the daemon is started, or an exception is
\* raised and ensure_daemon_running returns False.
LEnsureSpawn(r, started) ==
  /\ lPc[r] = "spawn"
  /\ IF started
       THEN /\ lDaemon' = [lDaemon EXCEPT ![r] = "spawned"]
            /\ lPc' = [lPc EXCEPT ![r] = "poll"]
       ELSE /\ lPc' = [lPc EXCEPT ![r] = "false"]
            /\ UNCHANGED lDaemon
  /\ UNCHANGED <<lPolls, lLock, lPort>>
  /\ UNCHANGED nonLockVars

\* One turn of "for _ in range(10)": return True if the lock file exists,
\* sleep otherwise; return False after the last turn.
LEnsurePoll(r) ==
  /\ lPc[r] = "poll"
  /\ IF lLock # 0
       THEN /\ lPc' = [lPc EXCEPT ![r] = "true"]
            /\ UNCHANGED lPolls
       ELSE /\ lPolls' = [lPolls EXCEPT ![r] = @ + 1]
            /\ lPc' = [lPc EXCEPT ![r] =
                         IF lPolls[r] + 1 = PollAttempts THEN "false" ELSE @]
  /\ UNCHANGED <<lLock, lDaemon, lPort>>
  /\ UNCHANGED nonLockVars

\* The daemon's module is loaded: with open(pid_file, "w") as f:
\* f.write(str(os.getpid())), whatever the file held.
LDaemonImport(p) ==
  /\ lDaemon[p] = "spawned"
  /\ lLock' = p
  /\ lDaemon' = [lDaemon EXCEPT ![p] = "locked"]
  /\ UNCHANGED <<lPc, lPolls, lPort>>
  /\ UNCHANGED nonLockVars

\* main(): atexit.register(cleanup), then ThreadedTCPServer(('localhost',
\* SOCKET_PORT), ...): the daemon listens, or the port is taken, the
\* exception ends the process and cleanup() runs at exit: the lock file is
\* removed if it exists, whatever it holds.
LDaemonBind(p) ==
  /\ lDaemon[p] = "locked"
  /\ IF lPort = 0
       THEN /\ lPort' = p
            /\ lDaemon' = [lDaemon EXCEPT ![p] = "serving"]
            /\ UNCHANGED lLock
       ELSE /\ lDaemon' = [lDaemon EXCEPT ![p] = "exited"]
            /\ lLock' = 0
            /\ UNCHANGED lPort
  /\ UNCHANGED <<lPc, lPolls>>
  /\ UNCHANGED nonLockVars

\* The daemon that listens ends, which frees the port.  A signal it handles
\* sets EXIT_FLAG: main() leaves its loop and runs cleanup().  A signal it
\* cannot handle (SIGKILL) ends it at once and the lock file stays.
LDaemonExit(p, how) ==
  /\ lDaemon[p] = "serving"
  /\ lDaemon' = [lDaemon EXCEPT ![p] = "exited"]
  /\ lLock' = IF how = "handled" THEN 0 ELSE lLock
  /\ lPort' = 0
  /\ UNCHANGED <<lPc, lPolls>>
  /\ UNCHANGED nonLockVars

NextLock ==
  \/ \E r \in LRelays : LEnsureCheck(r)
  \/ \E r \in LRelays : LEnsureRemove(r)
  \/ \E r \in LRelays, started \in BOOLEAN : LEnsureSpawn(r, started)
  \/ \E r \in LRelays : LEnsurePoll(r)
  \/ \E p \in LRelays : LDaemonImport(p)
  \/ \E p \in LRelays : LDaemonBind(p)
  \/ \E p \in LRelays, how \in {"handled", "killed"} : LDaemonExit(p, how)

InitC == InitCodec /\ InitDaemon /\ IdleRelay /\ IdleStandalone /\ IdleBackend /\ IdleStartup /\ IdleLock
InitD == IdleCodec /\ InitDaemon /\ IdleRelay /\ IdleStandalone /\ IdleBackend /\ IdleStartup /\ IdleLock
InitR == IdleCodec /\ InitDaemon /\ InitRelay /\ IdleStandalone /\ IdleBackend /\ IdleStartup /\ IdleLock
InitS == IdleCodec /\ InitDaemon /\ IdleRelay /\ InitStandalone /\ IdleBackend /\ IdleStartup /\ IdleLock
InitV == IdleCodec /\ InitDaemon /\ IdleRelay /\ InitServers /\ IdleBackend /\ IdleStartup /\ IdleLock
InitB == IdleCodec /\ InitDaemon /\ IdleRelay /\ IdleStandalone /\ InitBackend /\ IdleStartup /\ IdleLock
InitG == IdleCodec /\ InitDaemon /\ IdleRelay /\ IdleStandalone /\ IdleBackend /\ InitStartup /\ IdleLock

InitL == IdleCodec /\ InitDaemon /\ IdleRelay /\ IdleStandalone /\ IdleBackend /\ IdleStartup /\ InitLock

SpecCodec      == InitC /\ [][NextCodec]_vars
SpecDaemon     == InitD /\ [][NextDaemon]_vars
SpecRelay      == InitR /\ [][NextRelay]_vars
SpecStandalone == InitS /\ [][NextStandalone]_vars
SpecServers    == InitV /\ [][NextServers]_vars
SpecBackend    == InitB /\ [][NextBackend]_vars
\* The relay's threads are scheduled and the daemon serves the lines it has
\* received.
SpecRelayFair  == InitR /\ [][NextRelay]_vars
                        /\ WF_vars(RelaySteps) /\ WF_vars(\E c \in RConns : EServe(c))
\* The main thread of the relay is scheduled: a step of main() that can be
\* taken is taken.  Every sleep and every connection attempt ends.
\* main_loop runs on the main thread, which is scheduled as long as the
\* process lives: each of its steps is eventually taken.
SpecStandaloneFair == InitS /\ [][NextStandalone]_vars /\ WF_vars(TMainSteps)
SpecStartup    == InitG /\ [][NextStartup]_vars /\ WF_vars(StartupSteps)
\* Each handler thread is scheduled as long as the daemon runs.
SpecDaemonFair == InitD /\ [][NextDaemon]_vars /\ \A c \in DConns : WF_vars(DHandlerSteps(c))
SpecLock       == InitL /\ [][NextLock]_vars

(***************************************************************************)
(* Properties of the daemon.                                               *)
(***************************************************************************)
\* The line that a DProcess step on connection c takes off the buffer.
DNextLine(c) == SplitLine(dBuf[c], NL).line

\* The step is one turn of connection c's dispatch loop on a non-empty line.
DDispatches(c) == dHpc[c] = "proc" /\ dBuf'[c] # dBuf[c] /\ DNextLine(c) # <<>>

DDispatchesMethod(c, methods) ==
  /\ DDispatches(c)
  /\ DNextLine(c)[1].t = "obj"
  /\ MethodOf(DNextLine(c)[1]) \in methods

\* The responses handed to sendall by the step, in order.
DNewlySent(c) ==
  [i \in 1..(Len(dSent'[c]) - Len(dSent[c])) |-> dSent'[c][Len(dSent[c]) + i].resp]

DispatchedMethods == {"initialize", "tools/call", "shutdown"}
ClientMethods ==
  {"initialize", "tools/call", "shutdown", "notifications/cancelled", "foo", ""}

\* C5 (as amended): in the daemon a termination signal is never ignored: once
\* a signal handler has run to its end, EXIT_FLAG is set, whatever the
\* lifecycle state the signal was delivered in.
C5_SignalAlwaysSetsExit ==
  (dSigFirst # "none" /\ dSigPc = "idle") => dExit

C5_Witness ==
  dSigFirst = "initialized" /\ dSigPc = "idle" /\ dExit /\ dMainPc = "exited"

\* C5 (as claimed): once the state is initialized a termination signal is
\* ignored and never sets EXIT_FLAG.  No signal was delivered in the waiting
\* state when the first one came in the initialized state.
C5_Original ==
  dSigFirst = "initialized" => ~dExit

\* C7 (as amended): handling a shutdown request hands the acknowledgement
\* {id, result: success} to the same connection and ends that connection's
\* handler only: client_connected becomes false, EXIT_FLAG, the lifecycle
\* state and the main loop are left as they were.
C7_ShutdownEndsConnectionOnly ==
  [][ \A c \in DConns :
        DDispatchesMethod(c, {"shutdown"}) =>
          /\ DNewlySent(c) = <<Result(IdOf(DNextLine(c)[1]), "success")>>
          /\ ~dConnected'[c]
          /\ dExit' = dExit
          /\ dState' = dState
          /\ dMainPc' = "serving" ]_vars

C7_Witness ==
  \E c \in DConns :
    /\ \E i \in 1..Len(dSent[c]) : dSent[c][i].resp.body = "success"
    /\ dHpc[c] = "done"
    /\ ~dExit
    /\ dMainPc = "serving"

\* C7 (as claimed): handling a shutdown request acknowledges it and sets the
\* exit flag, so that the daemon stops.
C7_Original ==
  [][ \A c \in DConns :
        DDispatchesMethod(c, {"shutdown"}) =>
          /\ DNewlySent(c) = <<Result(IdOf(DNextLine(c)[1]), "success")>>
          /\ dExit' ]_vars

\* C8 (as amended): for a decoded request object whose method is none of
\* initialize, tools/call, shutdown and notifications/cancelled (a missing
\* method included), exactly one error response with code -32601 and the
\* request's id (0 when it has none) is handed to the connection's send; for
\* notifications/cancelled nothing is sent.  Either way the lifecycle state is
\* unchanged and the connection stays open.
C8_UnknownMethod ==
  [][ \A c \in DConns :
        /\ DDispatchesMethod(c, ClientMethods \ (DispatchedMethods \cup {"notifications/cancelled"})) =>
             DNewlySent(c) = <<ErrorResp(IdOf(DNextLine(c)[1]), MethodNotFound)>>
        /\ DDispatchesMethod(c, {"notifications/cancelled"}) =>
             DNewlySent(c) = <<>>
        /\ DDispatchesMethod(c, ClientMethods \ DispatchedMethods) =>
             /\ dState' = dState
             /\ dExit' = dExit
             /\ dConnected'[c] = dConnected[c]
             /\ dConnected[c] /\ ~dExit => dHpc'[c] # "done" ]_vars

C8_Witness ==
  \E c \in DConns :
    /\ \E i \in 1..Len(dSent[c]) :
         dSent[c][i] = [resp |-> ErrorResp(0, MethodNotFound), ok |-> TRUE]
    /\ dConnected[c]
    /\ dHpc[c] = "recv"

\* C8 (as claimed): every decoded request whose method is not initialize,
\* tools/call or shutdown, notifications/cancelled included, gets exactly
\* one -32601 error response echoing its id.
C8_Original ==
  [][ \A c \in DConns :
        DDispatchesMethod(c, ClientMethods \ DispatchedMethods) =>
          /\ DNewlySent(c) = <<ErrorResp(IdOf(DNextLine(c)[1]), MethodNotFound)>>
          /\ dState' = dState
          /\ dConnected'[c] = dConnected[c] ]_vars

\* C9: on every connection the responses appear in the order of the requests:
\* the requests of a connection carry increasing ids, and the ids of the
\* responses handed to the connection increase too.
C9_ResponsesInRequestOrder ==
  \A c \in DConns : \A i, j \in 1..Len(dSent[c]) :
    (i < j /\ dSent[c][i].resp.id # 0 /\ dSent[c][j].resp.id # 0) =>
      dSent[c][i].resp.id < dSent[c][j].resp.id

C9_Witness ==
  \E c \in DConns :
    /\ Len(dSent[c]) = 2
    /\ dSent[c][1].resp.id = 1 /\ dSent[c][1].ok
    /\ dSent[c][2].resp.id = 2 /\ dSent[c][2].ok

(***************************************************************************)
(* Properties of the frame codec.                                          *)
(***************************************************************************)
\* C10: whatever the chunk boundaries, the frames yielded so far, each
\* followed by its terminator, and then the retained buffer are exactly the
\* bytes received so far; no frame holds a terminator or is empty and the
\* buffer holds no terminator.  So the frames are the original values in
\* order, none lost or repeated, none yielded before its terminator came.
C10_RoundTrip ==
  /\ EncodeAll(cFrames, NLByte) \o cBuf = SubSeq(cStream, 1, cPos)
  /\ \A i \in 1..Len(cFrames) : cFrames[i] # <<>> /\ ~HasNL(cFrames[i], NLByte)
  /\ ~HasNL(cBuf, NLByte)

C10_Witness ==
  cSplit /\ Len(cFrames) = MaxFrames /\ cBuf # <<>> /\ cPos = Len(cStream)

(***************************************************************************)
(* Properties of the relay.                                                *)
(***************************************************************************)
\* The steps the relay process can take by itself: its two kinds of thread,
\* its main thread and its signal handler once entered.
RelayProgress == RelaySteps \/ RSignalSet

\* The sockets of the relay that are open on the relay's side.
ROpenSocks == {c \in RConns : kState[c] = "open"}

\* The forward_socket_to_stdout threads that are alive.
OAliveThreads == {t \in OThreads : OAlive(t)}

\* C1: when standard input reaches end-of-file before initialization, the
\* relay terminates: it cannot be left running with main() not returned and
\* no step of its own that changes anything; and once INITIALIZED is set
\* main() never returns.
C1_Original ==
  /\ sEofPreInit => (mPc = "returned" \/ ENABLED <<RelayProgress>>_vars)
  /\ rInit => mPc \notin {"returned", "failed"}

\* The initialize response has been printed on standard output.
RInitDone == \E i \in 1..Len(rStdout) : OIsInitResponse(rStdout[i])

\* C2: after an initialization that succeeded, whatever the daemon does to
\* the relay's socket, the response to a request is read from the socket the
\* request was sent on: a socket holding response bytes always has a live
\* forward_socket_to_stdout thread reading it.
C2_Original ==
  (RInitDone /\ ~rExit /\ mPc \in {"loop", "stay"}) =>
    \A c \in RConns : kToCli[c] # <<>> => \E t \in OAliveThreads : oSock[t] = c

\* C3: the relay holds at most one open socket to the daemon, and the
\* forward_stdin_to_socket thread and every live forward_socket_to_stdout
\* thread use the same socket.
C3_Original ==
  /\ Cardinality(ROpenSocks) <= 1
  /\ SAlive => \A t \in OAliveThreads : oSock[t] = sSock

\* C4: a signal whose handler finds INITIALIZED set is ignored, and EXIT_FLAG
\* is set only by a handler whose test found INITIALIZED false (or by
\* main()'s finally clause).
C4_SignalIgnoredOnceInitialized ==
  [][ /\ (rInit /\ rSigPc = "idle") => rSigPc' = "idle"
      /\ (rSigPc = "idle" /\ rSigPc' = "set") => ~rInit
      /\ (rExit' /\ ~rExit) => (rSigPc = "set" \/ mPc = "finally") ]_vars

\* A signal arrived after initialization and was ignored; the relay runs on.
C4_Witness == rSigIgnored /\ rInit /\ ~rExit /\ mPc = "loop"

\* C4 as stated: once INITIALIZED is set no signal handler sets EXIT_FLAG.
C4_Original ==
  [][ (rInit /\ rExit' /\ ~rExit) => mPc = "finally" ]_vars

\* The lines that parse as JSON: requests, other JSON values and responses.
IsJson(line) == line # Bad

\* C11: the relay forwards complete lines without checking them.  Every line
\* read from standard input, malformed ones included, is handed to sendall
\* unchanged, and what reaches the daemon is that line; a line is printed on
\* standard output only when the buffer holds its newline, and it is the
\* non-empty text before that newline.
C11_CompleteLinesForwardedUnchecked ==
  [][ /\ Len(rStdin') < Len(rStdin) => (sPc' = "send" /\ sLine' = Head(rStdin))
      /\ \A c \in RConns :
           Len(kToSrv'[c]) > Len(kToSrv[c]) => kToSrv'[c] = Append(kToSrv[c], sLine)
      /\ rStdout' # rStdout =>
           \E t \in OThreads :
             /\ oPc[t] = "proc"
             /\ HasNL(oBuf[t], NL)
             /\ SplitLine(oBuf[t], NL).line # <<>>
             /\ rStdout' = Append(rStdout, SplitLine(oBuf[t], NL).line)
             /\ oBuf'[t] = SplitLine(oBuf[t], NL).rest ]_vars

\* A malformed line has reached the daemon while a response is held back in a
\* buffer because its newline has not arrived.
C11_Witness ==
  /\ \E c \in RConns : \E i \in 1..Len(kToSrv[c]) : ~IsJson(kToSrv[c][i])
  /\ \E t \in OThreads : oBuf[t] # <<>> /\ ~HasNL(oBuf[t], NL)

\* C11 as stated: only lines that parse as JSON are forwarded, in either
\* direction.
C11_Original ==
  /\ \A c \in RConns : \A i \in 1..Len(kToSrv[c]) : IsJson(kToSrv[c][i])
  /\ \A i \in 1..Len(rStdout) : \A j \in 1..Len(rStdout[i]) : IsJson(rStdout[i][j])


(***************************************************************************)
(* Properties of the standalone servers.                                   *)
(***************************************************************************)
\* C6: what the two signal handlers do.  In src/standalone-mcp-server.py a
\* signal sets EXIT_FLAG unless IGNORE_SIGNALS is set, whatever SERVER_STATE
\* is.  In src/src/standalone-mcp-server.py SIGTERM is ignored while
\* SERVER_STATE is "initialized", SIGINT and a SIGTERM in any other state set
\* EXIT_FLAG, and SIGHUP ends the process.
C6_HandlersAsCoded ==
  [][ /\ tSig'.n # tSig.n => tExit' = (tExit \/ ~tIgnore)
      /\ uSig'.n # uSig.n =>
           IF uSig'.sig = "SIGHUP"
             THEN uPc' = "killed"
             ELSE /\ uPc' = uPc
                  /\ uExit' = (uExit \/ ~(uState = "initialized" /\ uSig'.sig = "SIGTERM")) ]_vars

\* A signal arrived at src/standalone-mcp-server.py during a tool call
\* (SERVER_STATE "processing", IGNORE_SIGNALS clear) and set EXIT_FLAG.
C6_Witness ==
  /\ prog = "standalone"
  /\ tSig.n > 0 /\ tSig.st = "processing" /\ ~tSig.ign
  /\ tPc = "tool1" /\ tExit

\* C6 as stated: in both servers a signal delivered while SERVER_STATE is
\* "initialized" or "processing" is ignored: it does not set EXIT_FLAG and
\* the server runs on.
C6_Original ==
  [][ /\ (tSig'.n # tSig.n /\ tState \in {"initialized", "processing"}) => tExit' = tExit
      /\ (uSig'.n # uSig.n /\ uState \in {"initialized", "processing"}) =>
           (uExit' = uExit /\ uPc' = uPc) ]_vars


(***************************************************************************)
(* Properties of the servers' lifecycle.                                   *)
(***************************************************************************)
\* C12: in the daemon and in src/standalone-mcp-server.py every initialize
\* request, whatever the state it is handled in, is answered with the
\* capability manifest under the request's id and leaves the state
\* "initialized"; and a state that has left "waiting" never returns to it.
C12_InitializeIdempotent ==
  [][ /\ \A c \in DConns :
           DDispatchesMethod(c, {"initialize"}) =>
             /\ DNewlySent(c) = <<Result(IdOf(DNextLine(c)[1]), "capabilities")>>
             /\ dState' = "initialized"
      /\ dState # "waiting" => dState' # "waiting"
      /\ (tPc = "init2" /\ tPc' = "send") =>
             /\ tResp' = Result(IdOf(tMsg), "capabilities")
             /\ tState' = "initialized"
      /\ tState # "waiting" => tState' # "waiting" ]_vars

\* The daemon has answered two initialize requests on one connection, the
\* second one handled in the state "initialized".
C12_Witness ==
  /\ prog = "daemon"
  /\ dState = "initialized"
  /\ \E c \in DConns : \E i, j \in 1..Len(dSent[c]) :
       /\ i < j
       /\ dSent[c][i].resp.body = "capabilities"
       /\ dSent[c][j].resp.body = "capabilities"

\* A line that is not a JSON text: its bytes are not UTF-8, or they are and
\* json.loads rejects them.
IsMalformed(line) == ~Decodes(line) \/ line = <<Bad>>

\* C13: a malformed line taken off a connection's buffer is dropped: nothing
\* is sent for it, the connection stays open, the lifecycle state is
\* unchanged, and when the buffer already holds the next complete line the
\* handler goes on to process it.
C13_Original ==
  [][ \A c \in DConns :
        (DDispatches(c) /\ IsMalformed(DNextLine(c))) =>
          /\ DNewlySent(c) = <<>>
          /\ dState' = dState
          /\ dConnected'[c] = dConnected[c]
          /\ HasNL(dBuf'[c], NL) => dHpc'[c] = "proc" ]_vars

\* The step hands a response of connection c to sendall, and sendall fails.
DSendFails(c) ==
  /\ Len(dSent'[c]) > Len(dSent[c])
  /\ ~dSent'[c][Len(dSent'[c])].ok

\* C14: a failed send does not end the session.  After a dispatch whose
\* response could not be sent (shutdown apart, which ends the connection by
\* itself) client_connected and EXIT_FLAG are as before, the handler does not
\* return, and when the buffer holds another complete line it goes on to
\* dispatch it.
C14_SendFailureKeepsSession ==
  [][ \A c \in DConns :
        (DSendFails(c) /\ ~DDispatchesMethod(c, {"shutdown"})) =>
          /\ dConnected'[c] = dConnected[c]
          /\ dExit' = dExit
          /\ (dConnected[c] /\ ~dExit) => dHpc'[c] # "done"
          /\ HasNL(dBuf'[c], NL) => dHpc'[c] = "proc" ]_vars

\* A send failed on a connection and a later request of the same connection
\* was dispatched all the same.
C14_Witness ==
  \E c \in DConns : \E i, j \in 1..Len(dSent[c]) :
    i < j /\ ~dSent[c][i].ok /\ dConnected[c]

\* The step is the empty read of connection c's handler: the client has
\* closed its side and the handler returns.
DEmptyRead(c) ==
  dHpc[c] = "recv" /\ dWire[c] = <<>> /\ dHpc'[c] = "done" /\ ~dConnected'[c]

\* C15: when a client closes its side of a connection, only that connection's
\* handler ends: EXIT_FLAG, the main loop, the lifecycle state and every other
\* connection are as before, and as long as the daemon serves, a connection
\* not opened yet can be opened.
C15_ClientCloseEndsHandlerOnly ==
  [][ \A c \in DConns :
        DEmptyRead(c) =>
          /\ dExit' = dExit
          /\ dMainPc' = dMainPc
          /\ dState' = dState
          /\ \A o \in DConns \ {c} :
               /\ dHpc'[o] = dHpc[o]
               /\ dConnected'[o] = dConnected[o]
               /\ dPeer'[o] = "none" => (ENABLED DClientConnect(o))' ]_vars

\* A client closed its connection, its handler ended, and the daemon, its exit
\* flag still clear, has served a request on the other connection.
C15_Witness ==
  \E c, o \in DConns :
    /\ c # o
    /\ dPeer[c] \in {"half", "gone"} /\ dHpc[c] = "done"
    /\ dSent[c] = <<>>
    /\ dSent[o] # <<>> /\ dConnected[o]
    /\ ~dExit /\ dMainPc = "serving"

\* main_loop is between two messages: at the loop head, fetching from the
\* queue or waiting for the event.
TBetweenMessages == prog = "standalone" /\ tPc \in {"top", "get", "wait", "clear"}

\* C16: SERVER_STATE is "processing" only while a tools/call is being
\* dispatched: it is never "processing" when the response has been produced
\* or while main_loop waits for the next message.
C16_Original ==
  (tPc = "send" \/ TBetweenMessages) => tState # "processing"

\* C17: SERVER_STATE leaves "waiting" only for "initialized" and only in
\* handle_initialize, and it becomes "processing" only from "initialized".
C17_Original ==
  [][ /\ (tState = "waiting" /\ tState' # "waiting") =>
           (tState' = "initialized" /\ tPc = "init1")
      /\ (tState # "processing" /\ tState' = "processing") =>
           tState = "initialized" ]_vars

\* The step is handle_tool_call's call of send_to_rhino and its return.
TToolCallReturns == prog = "standalone" /\ tPc = "tool1" /\ tPc' = "send"

\* C18: when Rhino cannot be reached, the response to a tools/call is a
\* JSON-RPC error object (an error member with a code, no result member)
\* under the request's id, and the state is no longer "processing".
C18_Original ==
  [][ (TToolCallReturns /\ ~tRhinoUp) =>
        /\ tResp'.code # 0
        /\ tResp'.id = IdOf(tMsg)
        /\ tState' # "processing" ]_vars

(***************************************************************************)
(* Properties of the clients of the Rhino endpoint.                        *)
(***************************************************************************)
\* What the caller can tell from an outcome without reading message texts.
BKind(r) == <<r.how, r.type, r.error>>

\* C19: a transport failure and an application error carried in a
\* well-formed response never give the caller the same kind of outcome.
C19_Original ==
  \A i, j \in 1..Len(bResults) :
    (bResults[i].origin = "transport" /\ bResults[j].origin = "application") =>
      BKind(bResults[i]) # BKind(bResults[j])

\* C20: no connection carries more than one command, and when no call is in
\* progress every connection that was opened is closed.
C20_Original ==
  /\ \A c \in BConns : bUsed[c] <= 1
  /\ bPc = "idle" => \A c \in BConns : bConn[c] # "open"

(***************************************************************************)
(* Properties of the relay's startup.                                      *)
(***************************************************************************)
\* C21: connect_to_daemon terminates: it makes at most five attempts, sleeps
\* 2^i seconds after the i-th failed attempt (i = 0..4), returns the socket
\* at the first success and returns None after five failures in a row.
C21_ConnectToDaemonBounded ==
  /\ [](/\ gAttempt <= ConnectAttempts
        /\ Len(gSlept) = gAttempt
        /\ \A i \in 1..Len(gSlept) : gSlept[i] = 2 ^ (i - 1)
        /\ gPc = "connect" => (gSock = "none" /\ gAttempt < ConnectAttempts)
        /\ gSock = "sock" => gAttempt < ConnectAttempts
        /\ gSock = "None" <=> gAttempt = ConnectAttempts)
  /\ (gPc = "connect") ~> (gPc = "connected" /\ gSock \in {"sock", "None"})

\* connect_to_daemon has returned None after sleeping 1, 2, 4, 8 and 16 seconds.
C21_Witness ==
  gPc = "connected" /\ gSock = "None" /\ gSlept = <<1, 2, 4, 8, 16>>

\* C22: when ensure_daemon_running returns False or connect_to_daemon
\* returns None at startup, main() starts no forwarding thread and the
\* process exits with status 1; threads run only after both succeeded.
C22_FatalStartupErrors ==
  /\ gThreads > 0 => (gEnsure = "true" /\ gSock = "sock")
  /\ (gEnsure = "false" /\ gPc # "ensured") =>
       (gPc = "returned" /\ gStatus = 1 /\ gThreads = 0)
  /\ (gSock = "None" /\ gPc # "connected") =>
       (gPc = "returned" /\ gStatus = 1 /\ gThreads = 0)

\* The daemon was found or spawned but never accepted a connection, and
\* main() has returned.
C22_Witness ==
  gPc = "returned" /\ gEnsure = "true" /\ gSock = "None" /\ gStatus = 1

\* C23: ensure_daemon_running spawns a daemon exactly when the lock is absent
\* or names a process that is not alive; a stale lock is removed before the
\* spawn; after the spawn the lock is looked for at most 10 times and failure
\* is returned if it never appears; a lock naming a live process gives
\* success without a spawn.
C23_Original ==
  /\ (gSeen # "none" /\ LockNamesLive(gSeen)) =>
       (gSpawned = 0 /\ gEnsure = "true" /\ gPc \notin {"spawn", "poll"})
  /\ (gSeen # "none" /\ ~LockNamesLive(gSeen)) =>
       (gPc = "spawn" \/ gSpawned = 1 \/ gEnsure = "false")
  /\ gPc = "spawn" => gLock = "absent"
  /\ gPolls <= PollAttempts
  /\ (gSpawned = 1 /\ gEnsure = "false") => gPolls = PollAttempts

RShutdownAnswered ==
  \E i \in 1..Len(rStdout) :
    rStdout[i][1].t = "resp" /\ rStdout[i][1].code = 0 /\ rStdout[i][1].body = "success"

\* C26: once a shutdown request has been relayed to the daemon and answered
\* in an initialized session, the relay process eventually terminates.
C26_Original == (RInitDone /\ RShutdownAnswered) ~> ~RAlive

\* C27: a sendall of forward_stdin_to_socket that fails before any
\* initialize response has been received ends the thread, without a
\* reconnection; this includes the write of the initialize request itself.
C27_Original ==
  [][ (sPc = "send" /\ sPc' \notin {"send", "top"} /\ ~RInitDone) => sPc' = "dead" ]_vars

(***************************************************************************)
(* Further properties of the daemon.                                       *)
(***************************************************************************)
\* C28: the daemon answers every initialize request with exactly one
\* response, which echoes the request's id and carries SERVER_CAPABILITIES,
\* whose manifest declares six tool entries.
C28_InitializeResponse ==
  [][ \A c \in DConns :
        DDispatchesMethod(c, {"initialize"}) =>
          /\ Len(DNewlySent(c)) = 1
          /\ DNewlySent(c)[1].code = 0
          /\ DNewlySent(c)[1].id = IdOf(DNextLine(c)[1])
          /\ ManifestTools(DNewlySent(c)[1]) = SERVER_CAPABILITIES.capabilities.tools
          /\ Len(ManifestTools(DNewlySent(c)[1])) = 6 ]_vars

\* An initialize request sent as the second line of a connection was
\* answered with id 2 and the manifest.
C28_Witness ==
  \E c \in DConns : \E i \in 1..Len(dSent[c]) :
    /\ dSent[c][i].ok
    /\ dSent[c][i].resp.id = 2
    /\ Len(ManifestTools(dSent[c][i].resp)) = 6

\* C28 as stated: the manifest of every initialize response has exactly
\* four tool entries.
C28_Original ==
  [][ \A c \in DConns :
        DDispatchesMethod(c, {"initialize"}) =>
          /\ Len(DNewlySent(c)) = 1
          /\ DNewlySent(c)[1].id = IdOf(DNextLine(c)[1])
          /\ Len(ManifestTools(DNewlySent(c)[1])) = 4 ]_vars

C30_ConnectionsIsolated ==
  [][ /\ \A c \in DConns :
           /\ dBuf'[c] # dBuf[c] =>
                \/ /\ dHpc[c] = "recv"
                   /\ \E k \in 1..Len(dWire[c]) :
                        /\ dBuf'[c] = dBuf[c] \o SubSeq(dWire[c], 1, k)
                        /\ dWire'[c] = SubSeq(dWire[c], k + 1, Len(dWire[c]))
                \/ /\ dHpc[c] = "proc"
                   /\ dBuf'[c] = SplitLine(dBuf[c], NL).rest
           /\ dSent'[c] # dSent[c] =>
                /\ DDispatches(c)
                /\ Decodes(DNextLine(c))
                /\ DNewlySent(c) = DProcessMessage(DNextLine(c), dState).send
           /\ (dBuf'[c] # dBuf[c] \/ dSent'[c] # dSent[c]) =>
                \A d \in DConns \ {c} :
                  dBuf'[d] = dBuf[d] /\ dSent'[d] = dSent[d] /\ dWire'[d] = dWire[d]
      /\ \A c \in DConns :
           /\ (dMainPc' = "serving" /\ dHpc'[c] = "proc") => (ENABLED DProcess(c, TRUE))'
           /\ (dMainPc' = "serving" /\ dHpc'[c] = "recv" /\ dWire'[c] # <<>>) =>
                (ENABLED DRecv(c, 1))' ]_vars

\* One handler has answered a request and is blocked in recv, its client
\* silent, while the handler of another connection holds a complete line.
C30_Witness ==
  \E c, d \in DConns :
    /\ c # d
    /\ dPeer[d] = "up" /\ dHpc[d] = "recv" /\ dWire[d] = <<>> /\ dSent[d] # <<>>
    /\ dHpc[c] = "proc" /\ HasNL(dBuf[c], NL)
    /\ dMainPc = "serving"

(***************************************************************************)
(* The process-wide state under concurrent dispatch.                       *)
(***************************************************************************)
\* Connection c's handler thread holds a complete tools/call request and is
\* inside the dispatch of it: handle_tool_call has not yet handed its
\* response to sendall.
DToolCallInFlight(c) ==
  /\ dHpc[c] = "proc"
  /\ DNextLine(c) # <<>>
  /\ DNextLine(c)[1].t = "obj"
  /\ MethodOf(DNextLine(c)[1]) = "tools/call"

\* C31: once the daemon has been initialized, SERVER_STATE is "processing"
\* as long as the handler thread of at least one connection is inside a
\* tools/call dispatch, and "initialized" when none is.
C31_Original ==
  dState # "waiting" =>
    dState = IF \E c \in DConns : DToolCallInFlight(c)
               THEN "processing" ELSE "initialized"

(***************************************************************************)
(* The ignore-signals guard of src/standalone-mcp-server.py.               *)
(***************************************************************************)
\* C32: IGNORE_SIGNALS is true exactly while handle_initialize is executing
\* (after its first assignment and before its finally clause has run); in
\* every other position of the main thread it is false.
C32_IgnoreSignalsScoped ==
  prog = "standalone" => (tIgnore <=> tPc \in {"init1", "init2"})

\* handle_initialize has returned its response, a signal that arrived while
\* it was executing was ignored, and the guard is false again.
C32_Witness ==
  /\ prog = "standalone"
  /\ tPc = "send" /\ tResp.body = "capabilities"
  /\ tSig.ign
  /\ ~tIgnore

(***************************************************************************)
(* The message queue of src/standalone-mcp-server.py.                      *)
(***************************************************************************)
\* The number of lines persist_stdin has put on MESSAGE_QUEUE so far.
TPut == tCount - Len(tStdin)

\* The number of lines main_loop has taken off the queue and given to
\* process_message.
TDispatched == TPut - Len(tQueue) - (IF tPc = "process" THEN 1 ELSE 0)

\* C33: the queue changes only by a put at its tail or by main_loop taking its
\* head, which is the message dispatched next; and the n-th line put on the
\* queue is eventually dispatched unless EXIT_FLAG is set, whatever the
\* order of the put, the set, the wait and the clear.
C33_QueueDelivered ==
  /\ [][ /\ tQueue' # tQueue =>
              \/ /\ tInPc = "read" /\ tStdin # <<>>
                 /\ tQueue' = Append(tQueue, Head(tStdin))
              \/ /\ tPc = "get" /\ tQueue # <<>> /\ tPc' = "process"
                 /\ tQueue' = Tail(tQueue) /\ tMsg' = Head(tQueue)
         /\ (tPc = "process" /\ tPc' # "process") => tMsg' = tMsg
         /\ (tPc # "get" /\ tPc' = "process") => tPc = "process" ]_vars
  /\ \A n \in 1..MaxSLines :
       (prog = "standalone" /\ TPut >= n) ~> (TDispatched >= n \/ tExit)

\* Every line has been put, taken and answered; the main loop, with
\* EXIT_FLAG not set, is waiting on the cleared event.
C33_Witness ==
  /\ prog = "standalone"
  /\ TPut = MaxSLines /\ Len(tOut) = MaxSLines
  /\ ~tExit /\ tPc = "wait" /\ ~tEvent

(***************************************************************************)
(* The lines the relay writes and the connections they came from.          *)
(***************************************************************************)
\* C34: every line the relay writes on standard output is one frame of the
\* daemon and nothing else: a partial frame left in a thread's buffer when
\* the thread reconnects is never joined with a frame of the new connection.
C34_LinesOfOneFrame ==
  \A i \in 1..Len(rStdout) :
    Len(rStdout[i]) = 1 /\ rStdout[i][1].t = "resp"

\* The first output thread holds a frame whose newline it has not read and
\* has replaced its socket by a new connection, while the daemon's answer to
\* the request that was sent again waits on the input thread's connection.
C34_Witness ==
  /\ oPc[1] = "recv" /\ oSock[1] > 1 /\ kState[oSock[1]] = "open"
  /\ oBuf[1] # <<>> /\ ~HasNL(oBuf[1], NL)
  /\ sSock \in RConns /\ sSock # oSock[1]
  /\ kState[sSock] = "open" /\ kToCli[sSock] # <<>>

(***************************************************************************)
(* The number of forwarding threads of the relay.                          *)
(***************************************************************************)
\* C35: at most one forward_socket_to_stdout thread is alive at any time,
\* whichever of the thread's own finally block, the supervisor loop and the
\* reconnection loop has started it.  (The input-forwarding thread is started
\* by main() only, and only when the one it started before is not alive.)
C35_Original == Cardinality(OAliveThreads) <= 1

(***************************************************************************)
(* The PID lock file and the daemon that listens.                          *)
(***************************************************************************)
\* C36: whenever a daemon listens on the daemon port, the PID lock file
\* exists and holds that daemon's process id, also when two relays run
\* ensure_daemon_running at the same time and a second daemon is spawned
\* that fails to bind the port.
C36_Original == lPort # 0 => lLock = lPort

(***************************************************************************)
(* The end of a handler thread on a broken connection.                     *)
(***************************************************************************)
\* C37: a handler whose connection is broken, its reads raising an error
\* instead of returning an empty read, eventually leaves handle(), the
\* daemon still running.
C37_Original ==
  \A c \in DConns :
    (dPeer[c] = "reset") ~> (dHpc[c] = "done" \/ dMainPc # "serving")

(***************************************************************************)
(* Shutdown of the standalone servers.                                     *)
(***************************************************************************)
\* The acknowledgement of a shutdown request: the only result {"success": true}
\* either server writes.
IsShutdownAck(resp) == resp.code = 0 /\ resp.body = "success"

\* C38: in both standalone servers the acknowledgement of a shutdown request
\* carries the request's id and is the last frame written to standard
\* output: once it is written EXIT_FLAG is set, nothing read or queued
\* after the request is dispatched, and the main loop ends.
C38_ShutdownAckIsLast ==
  /\ [](\A i \in 1..Len(tOut) :
          IsShutdownAck(tOut[i]) =>
            /\ i = Len(tOut)
            /\ tExit /\ tPc \in {"top", "done"})
  /\ []((tPc = "send" /\ tMsg.t = "obj" /\ MethodOf(tMsg) = "shutdown") =>
          tResp = Result(IdOf(tMsg), "success"))
  /\ [](\A i \in 1..Len(uOut) :
          IsShutdownAck(uOut[i]) => (i = Len(uOut) /\ uExit /\ uPc = "done"))
  /\ [][ (uOut' # uOut /\ MethodOf(Head(uStdin)) = "shutdown") =>
           uOut' = Append(uOut, Result(IdOf(Head(uStdin)), "success")) ]_vars
  /\ ((\E i \in 1..Len(tOut) : IsShutdownAck(tOut[i])) ~> (tPc = "done"))

\* The main loop of src/standalone-mcp-server.py has ended after the
\* acknowledgement of a shutdown request, with a later line still queued.
C38_Witness ==
  /\ prog = "standalone"
  /\ tPc = "done"
  /\ tOut # <<>> /\ IsShutdownAck(tOut[Len(tOut)])
  /\ tOut[Len(tOut)].id = 1
  /\ tQueue # <<>>

(***************************************************************************)
(* The id of a response.                                                   *)
(***************************************************************************)
\* C39: every response to a request that parsed as a JSON object carries
\* that request's id, the internal-error response sent when the request's
\* handler fails included, in the daemon and in
\* src/standalone-mcp-server.py alike.
C39_Original ==
  [][ /\ \A c \in DConns :
           (DDispatches(c) /\ DNextLine(c)[1].t = "obj") =>
             \A i \in 1..Len(DNewlySent(c)) :
               DNewlySent(c)[i].id = IdOf(DNextLine(c)[1])
      /\ (prog = "standalone" /\ tPc # "send" /\ tPc' = "send" /\ tMsg.t = "obj") =>
           tResp'.id = IdOf(tMsg) ]_vars

=============================================================================
